---------------------------- MODULE Spec2Model ----------------------------
(***************************************************************************)
(* A model of the colour-blindness simulator (color-blindness-simulator.ts *)
(* and types.ts): parseColorInput, the two simulation paths, the anomalous *)
(* blend, the clamp and rgbToHex, driven one stage at a time by simulate   *)
(* and its eight wrappers.                                                 *)
(*                                                                         *)
(* NUMBERS.  A JavaScript number is modelled as a record                   *)
(*     [t |-> "fin", m |-> mantissa, e |-> exponent]   value m * 2^e       *)
(*     [t |-> "inf", m |-> +1 or -1, e |-> 0]          an infinity         *)
(*     [t |-> "nan", m |-> 0, e |-> 0]                 NaN                 *)
(* A finite non-zero number keeps a 24 bit mantissa (2^23 <= |m| < 2^24),  *)
(* every operation rounding its result to nearest, so the arithmetic is    *)
(* that of the source with a relative error of 2^-24 per operation in      *)
(* place of 2^-53.  NaN and the infinities propagate as IEEE 754 has them; *)
(* the sign of a zero is not kept (x / 0 takes the sign of x).             *)
(*                                                                         *)
(* STRINGS are sequences of one-character strings, so that replace,        *)
(* substr, parseInt, startsWith, toString(16) and toUpperCase are computed *)
(* character by character.                                                 *)
(***************************************************************************)
EXTENDS Integers, Sequences, FiniteSets, TLC

(***************************************************************************)
(* The number type                                                         *)
(***************************************************************************)
NaN == [t |-> "nan", m |-> 0, e |-> 0]

Inf(s) == [t |-> "inf", m |-> s, e |-> 0]

Zero == [t |-> "fin", m |-> 0, e |-> 0]

Abs(n) == IF n < 0 THEN -n ELSE n

Sgn(n) == IF n > 0 THEN 1 ELSE IF n < 0 THEN -1 ELSE 0

IsNaN(x) == x.t = "nan"

IsFin(x) == x.t = "fin"

\* The number of bits of the natural number a (0 for 0), a < 2^31, counted up
\* from k.
RECURSIVE BitLen(_, _)
BitLen(a, k) == IF k = 31 \/ 2^k > a THEN k ELSE BitLen(a, k + 1)

\* m * 2^e, its mantissa brought to 24 bits, rounded to nearest.
Norm(m, e) ==
    IF m = 0 THEN Zero
    ELSE LET a == Abs(m)
             L == BitLen(a, IF a >= 8388608 THEN 24 ELSE 0)
         IN  IF L > 24
             THEN LET sh == L - 24
                      r  == (a + 2^(sh - 1)) \div 2^sh
                  IN  IF r = 16777216
                      THEN [t |-> "fin", m |-> Sgn(m) * 8388608, e |-> e + sh + 1]
                      ELSE [t |-> "fin", m |-> Sgn(m) * r, e |-> e + sh]
             ELSE [t |-> "fin", m |-> Sgn(m) * a * 2^(24 - L), e |-> e - (24 - L)]

\* An integer literal of the source.
Num(n) == Norm(n, 0)

Neg(x) == IF IsNaN(x) THEN x ELSE [x EXCEPT !.m = -x.m]

\* x * y
Mul(x, y) ==
    IF IsNaN(x) \/ IsNaN(y) THEN NaN
    ELSE IF x.t = "inf" \/ y.t = "inf"
         THEN IF x.m = 0 \/ y.m = 0 THEN NaN ELSE Inf(Sgn(x.m) * Sgn(y.m))
    ELSE IF x.m = 0 \/ y.m = 0 THEN Zero
    ELSE LET a  == Abs(x.m)
             b  == Abs(y.m)
             a1 == a \div 4096
             a0 == a % 4096
             b1 == b \div 4096
             b0 == b % 4096
             p  == a1 * b1 * 4 + (a1 * b0 + a0 * b1 + (a0 * b0) \div 4096) \div 1024
         IN  Norm(Sgn(x.m) * Sgn(y.m) * p, x.e + y.e + 22)

\* Seven more bits of the quotient a / b: <<quotient, remainder>>.
DivStep(qr, b) == <<qr[1] * 128 + (qr[2] * 128) \div b, (qr[2] * 128) % b>>

\* x / y
Div(x, y) ==
    IF IsNaN(x) \/ IsNaN(y) THEN NaN
    ELSE IF x.t = "inf"
         THEN IF y.t = "inf" THEN NaN ELSE Inf(Sgn(x.m) * (IF y.m < 0 THEN -1 ELSE 1))
    ELSE IF y.t = "inf" THEN Zero
    ELSE IF y.m = 0 THEN (IF x.m = 0 THEN NaN ELSE Inf(Sgn(x.m)))
    ELSE IF x.m = 0 THEN Zero
    ELSE LET a  == Abs(x.m)
             b  == Abs(y.m)
             q4 == DivStep(DivStep(DivStep(DivStep(<<a \div b, a % b>>, b), b), b), b)
         IN  Norm(Sgn(x.m) * Sgn(y.m) * q4[1], x.e - y.e - 28)

\* x + y for finite non-zero x, y with x.e >= y.e
AddOrdered(x, y) ==
    LET d == x.e - y.e
    IN  IF d > 30 THEN x
        ELSE Norm(x.m * 64 + Sgn(y.m) * ((Abs(y.m) * 64) \div 2^d), x.e - 6)

\* x + y
Add(x, y) ==
    IF IsNaN(x) \/ IsNaN(y) THEN NaN
    ELSE IF x.t = "inf"
         THEN IF y.t = "inf" /\ y.m # x.m THEN NaN ELSE x
    ELSE IF y.t = "inf" THEN y
    ELSE IF x.m = 0 THEN y
    ELSE IF y.m = 0 THEN x
    ELSE IF x.e >= y.e THEN AddOrdered(x, y) ELSE AddOrdered(y, x)

\* x - y
Sub(x, y) == Add(x, Neg(y))

\* x < y (false when either is NaN)
Lt(x, y) ==
    IF IsNaN(x) \/ IsNaN(y) THEN FALSE
    ELSE IF x.t = "inf" THEN x.m < 0 /\ ~(y.t = "inf" /\ y.m < 0)
    ELSE IF y.t = "inf" THEN y.m > 0
    ELSE Sub(x, y).m < 0

\* x > y
Gt(x, y) == Lt(y, x)

\* x <= y (false when either is NaN)
Le(x, y) == ~IsNaN(x) /\ ~IsNaN(y) /\ ~Lt(y, x)

\* x >= y
Ge(x, y) == Le(y, x)

\* x === y on numbers (false when either is NaN)
Eq(x, y) == ~IsNaN(x) /\ ~IsNaN(y) /\ x = y

\* Math.round(x): floor(x + 0.5)
Round(x) ==
    IF ~IsFin(x) \/ x.m = 0 \/ x.e >= 0 THEN x
    ELSE IF -x.e > 24 THEN Zero
    ELSE Num((x.m + 2^(-x.e - 1)) \div 2^(-x.e))

\* Math.max(a, b), Math.min(a, b): NaN when either is NaN
Max(a, b) == IF IsNaN(a) \/ IsNaN(b) THEN NaN ELSE IF Gt(b, a) THEN b ELSE a

Min(a, b) == IF IsNaN(a) \/ IsNaN(b) THEN NaN ELSE IF Lt(b, a) THEN b ELSE a

\* The integer an integral finite number stands for (small integers only).
ToInt(x) == IF x.m = 0 THEN 0
            ELSE IF x.e >= 0 THEN x.m * 2^(x.e)
            ELSE x.m \div 2^(-x.e)

\* x^n for a natural number n, by repeated squaring
RECURSIVE IPow(_, _)
IPow(x, n) ==
    IF n = 0 THEN Num(1)
    ELSE IF n = 1 THEN x
    ELSE LET h  == IPow(x, n \div 2)
             h2 == Mul(h, h)
         IN  IF n % 2 = 1 THEN Mul(h2, x) ELSE h2

\* The decimal literal digits / 10^scale of the source (0.7465 is Dec(7465, 4)),
\* kept to nine significant digits, which is more than the mantissa holds.
Dec(digits, scale) == Div(Num(digits), IPow(Num(10), scale))

\* Newton's iteration for the q-th root of a > 0, from a start above the root,
\* until it stops decreasing.
RECURSIVE NewtonRoot(_, _, _)
NewtonRoot(a, q, y) ==
    LET y2 == Div(Add(Mul(Num(q - 1), y), Div(a, IPow(y, q - 1))), Num(q))
    IN  IF Lt(y2, y) THEN NewtonRoot(a, q, y2) ELSE y

\* The q-th root of a finite a > 0.  With a = (1 + u) * 2^(q * k + f), 0 <= u < 1
\* and 0 <= f < q, the root is 2^k * 2^((f + log2(1 + u)) / q); the iteration
\* starts at 2^k * (1 + (f + u + 1/8) / q), which is above it.
Root(a, q) ==
    LET E == a.e + 23
        k == IF E >= 0 THEN E \div q ELSE -((-E + q - 1) \div q)
        f == E - q * k
        n == f * 8388608 + (a.m - 8388608) + 1048576
    IN  NewtonRoot(a, q, Norm(8388608 + n \div q, k - 23))

\* Math.pow(x, p / q) for natural numbers p, q > 0
Pow(x, p, q) ==
    IF IsNaN(x) THEN NaN
    ELSE IF p = q THEN x
    ELSE IF x.t = "inf" THEN (IF x.m < 0 /\ q # 1 THEN NaN ELSE IPow(x, p))
    ELSE IF x.m = 0 THEN Zero
    ELSE IF x.m < 0 THEN (IF q # 1 THEN NaN ELSE IPow(x, p))
    ELSE IF q = 1 THEN IPow(x, p)
    ELSE Root(IPow(x, p), q)

(***************************************************************************)
(* Constants of color-blindness-simulator.ts                               *)
(***************************************************************************)
\* COLOR_MATRICES.XYZ_TO_RGB, indexed from 0 as in the source (At0)
XYZ_TO_RGB ==
    << Dec(324071247, 8),       Neg(Dec(969259259, 9)),  Dec(556360032, 10),
       Neg(Dec(153726266, 8)),  Dec(187599697, 8),       Neg(Dec(203994880, 9)),
       Neg(Dec(498574404, 9)),  Dec(415561322, 10),      Dec(105706369, 8) >>

\* COLOR_MATRICES.RGB_TO_XYZ
RGB_TO_XYZ ==
    << Dec(412423712, 9),  Dec(212656068, 9),   Dec(193319876, 10),
       Dec(357579340, 9),  Dec(715157818, 9),   Dec(119192674, 9),
       Dec(180466223, 9),  Dec(721864539, 10),  Dec(950449112, 9) >>

\* matrix[i] of the source
At0(matrix, i) == matrix[i + 1]

\* BLINDNESS_CONFIGURATIONS: the confusion point (x, y) and the colour axis
\* y = m * x + yi of each key
BLINDNESS_CONFIGURATIONS ==
    [ protan |-> [x |-> Dec(7465, 4),   y |-> Dec(2535, 4),
                  m |-> Dec(1273463, 6), yi |-> Neg(Dec(73894, 6))],
      deutan |-> [x |-> Dec(102274, 5), y |-> Neg(Dec(2274, 5)),
                  m |-> Dec(968437, 6),  yi |-> Dec(3331, 6)],
      tritan |-> [x |-> Dec(1748, 4),   y |-> Num(0),
                  m |-> Dec(62921, 6),   yi |-> Dec(292119, 6)],
      custom |-> [x |-> Dec(735, 3),    y |-> Dec(265, 3),
                  m |-> Neg(Dec(1059259, 6)), yi |-> Dec(1026914, 6)] ]

\* Defaults that name the generic profile
GenericDefaults == [colorProfile |-> "generic", gammaCorrection |-> <<11, 5>>]

\* DEFAULT_OPTIONS.  A gammaCorrection is the fraction <<p, q>>: 2.2 is <<11, 5>>.
DEFAULT_OPTIONS == [colorProfile |-> "sRGB", gammaCorrection |-> <<11, 5>>]

\* The module-level objects as they are when the module is loaded
ModuleObjects ==
    [COLOR_MATRICES           |-> [XYZ_TO_RGB |-> XYZ_TO_RGB, RGB_TO_XYZ |-> RGB_TO_XYZ],
     BLINDNESS_CONFIGURATIONS |-> BLINDNESS_CONFIGURATIONS,
     DEFAULT_OPTIONS          |-> DEFAULT_OPTIONS]

\* COLOR_MATRICES, BLINDNESS_CONFIGURATIONS and DEFAULT_OPTIONS are bindings to
\* objects that every call reads and that live as long as the module: they are
\* state, which a call could write
VARIABLE tables

\* The literals of the sRGB curve (lines 102 and 150): 0.04045, 0.055, 1.055,
\* 12.92, 0.0031308; its exponent 2.4 is the fraction 12 / 5
SrgbDecodeKnee == Dec(4045, 5)

SrgbOffset == Dec(55, 3)

SrgbScale == Dec(1055, 3)

SrgbSlope == Dec(1292, 2)

SrgbEncodeKnee == Dec(31308, 7)

\* 255, 0 and 1
N255 == Num(255)

One == Num(1)

\* The luminance weights of line 186
LumaR == Dec(212656, 6)

LumaG == Dec(715158, 6)

LumaB == Dec(72186, 6)

\* A blend factor of 1.5
blendFactorSmaller == Dec(15, 1)

\* blendFactor and totalWeight (lines 191-192 and 355-356)
blendFactor == Dec(175, 2)

totalWeight == Add(blendFactor, Num(1))

\* The D65 white point of lines 241-242: 0.312713, 0.329016, 0.358271
WhiteX == Dec(312713, 6)

WhiteY == Dec(329016, 6)

WhiteZ == Dec(358271, 6)

(***************************************************************************)
(* The colour-space conversions                                            *)
(***************************************************************************)
\* A gamma decoding that raises to gammaCorrection under either profile
GammaDecodeAlwaysPower(v, options) ==
    Pow(Div(v, N255), options.gammaCorrection[1], options.gammaCorrection[2])

\* The gamma decoding of one channel value (lines 95-110)
GammaDecode(v, options) ==
    LET c == Div(v, N255)
    IN  IF options.colorProfile = "sRGB"
        THEN IF Gt(c, SrgbDecodeKnee)
             THEN Pow(Div(Add(c, SrgbOffset), SrgbScale), 12, 5)
             ELSE Div(c, SrgbSlope)
        ELSE Pow(c, options.gammaCorrection[1], options.gammaCorrection[2])

\* The product of a row vector with a 3 x 3 matrix, as lines 114-116, 144-146,
\* 174-176, 236-238 and 250-252 write it out
MatMul(a, b, c, matrix) ==
    << Add(Add(Mul(a, At0(matrix, 0)), Mul(b, At0(matrix, 3))), Mul(c, At0(matrix, 6))),
       Add(Add(Mul(a, At0(matrix, 1)), Mul(b, At0(matrix, 4))), Mul(c, At0(matrix, 7))),
       Add(Add(Mul(a, At0(matrix, 2)), Mul(b, At0(matrix, 5))), Mul(c, At0(matrix, 8))) >>

AsXyz(v) == [X |-> v[1], Y |-> v[2], Z |-> v[3]]

AsLinear(v) == [r |-> v[1], g |-> v[2], b |-> v[3]]

\* convertLinearRgbToXyz(r, g, b)
convertLinearRgbToXyz(r, g, b) ==
    AsXyz(MatMul(r, g, b, tables.COLOR_MATRICES.RGB_TO_XYZ))

\* convertRgbToXyz(rgb, options)
convertRgbToXyz(rgb, options) ==
    AsXyz(MatMul(GammaDecode(rgb.R, options), GammaDecode(rgb.G, options),
                 GammaDecode(rgb.B, options), tables.COLOR_MATRICES.RGB_TO_XYZ))

\* A conversion to xyY that normalises the luminance Y as it does x and y
XyyNormalisingLuminance(xyz) ==
    LET sum == Add(Add(xyz.X, xyz.Y), xyz.Z)
    IN  IF Eq(sum, Zero)
        THEN [x |-> Zero, y |-> Zero, Y |-> xyz.Y]
        ELSE [x |-> Div(xyz.X, sum), y |-> Div(xyz.Y, sum), Y |-> Div(xyz.Y, sum)]

\* A conversion to xyY without the case of a zero sum
XyyDividingAlways(xyz) ==
    LET sum == Add(Add(xyz.X, xyz.Y), xyz.Z)
    IN  [x |-> Div(xyz.X, sum), y |-> Div(xyz.Y, sum), Y |-> xyz.Y]

\* convertXyzToXyy(xyz)
convertXyzToXyy(xyz) ==
    LET sum == Add(Add(xyz.X, xyz.Y), xyz.Z)
    IN  IF Eq(sum, Zero)
        THEN [x |-> Zero, y |-> Zero, Y |-> xyz.Y]
        ELSE [x |-> Div(xyz.X, sum), y |-> Div(xyz.Y, sum), Y |-> xyz.Y]

\* XYZ to linear RGB (lines 144-146, 236-238, 250-252)
XyzToLinear(X, Y, Z) == AsLinear(MatMul(X, Y, Z, tables.COLOR_MATRICES.XYZ_TO_RGB))

\* An inverse gamma correction that takes the power 1 / gammaCorrection for
\* the sRGB profile too
GammaEncodePowerOnly(c, options) ==
    IF Le(c, Zero) THEN Zero
    ELSE IF Ge(c, One) THEN One
    ELSE Pow(c, options.gammaCorrection[2], options.gammaCorrection[1])

\* The inverse gamma correction and clamp to [0, 1] of one linear channel
\* (lines 150-156)
GammaEncode(c, options) ==
    IF Le(c, Zero) THEN Zero
    ELSE IF Ge(c, One) THEN One
    ELSE IF options.colorProfile = "sRGB"
         THEN IF Le(c, SrgbEncodeKnee)
              THEN Mul(SrgbSlope, c)
              ELSE Sub(Mul(SrgbScale, Pow(c, 5, 12)), SrgbOffset)
         ELSE Pow(c, options.gammaCorrection[2], options.gammaCorrection[1])

\* Math.round(c * 255) of an encoded channel (lines 161-163)
To255(c) == Round(Mul(c, N255))

\* The encoding of linear RGB (lines 148-164)
EncodeLinear(lin, options) ==
    [R |-> To255(GammaEncode(lin.r, options)),
     G |-> To255(GammaEncode(lin.g, options)),
     B |-> To255(GammaEncode(lin.b, options))]

\* convertXyzToRgb(xyz, options)
convertXyzToRgb(xyz, options) == EncodeLinear(XyzToLinear(xyz.X, xyz.Y, xyz.Z), options)

(***************************************************************************)
(* The two simulation paths                                                *)
(***************************************************************************)
\* The blend of one channel without the division by totalWeight
BlendWithoutWeight(sim, orig) == Add(Mul(blendFactor, sim), orig)

\* The anomalous blend of one channel (lines 195-197 and 359-361)
BlendChannel(sim, orig) == Div(Add(Mul(blendFactor, sim), orig), totalWeight)

\* A grayscale that leaves the blue term out of the luminance
GrayscaleWithoutBlue(rgb) ==
    LET luminance == Add(Mul(rgb.R, LumaR), Mul(rgb.G, LumaG))
    IN  [R |-> Round(luminance), G |-> Round(luminance), B |-> Round(luminance)]

\* The grayscale of lines 186-187
Grayscale(rgb) ==
    LET luminance == Add(Add(Mul(rgb.R, LumaR), Mul(rgb.G, LumaG)), Mul(rgb.B, LumaB))
    IN  [R |-> Round(luminance), G |-> Round(luminance), B |-> Round(luminance)]

\* The blend of lines 194-198
AchromaticBlend(grayscale, rgb) ==
    [R |-> Round(BlendChannel(grayscale.R, rgb.R)),
     G |-> Round(BlendChannel(grayscale.G, rgb.G)),
     B |-> Round(BlendChannel(grayscale.B, rgb.B))]

\* simulateAchromatopsia blending whatever anomalize is
AchromatopsiaAlwaysBlended(rgb, anomalize) == AchromaticBlend(Grayscale(rgb), rgb)

\* simulateAchromatopsia(rgb, anomalize)
simulateAchromatopsia(rgb, anomalize) ==
    IF anomalize THEN AchromaticBlend(Grayscale(rgb), rgb) ELSE Grayscale(rgb)

\* simulateDichromacy is modelled as the composition of its blocks, each taking
\* the values computed so far (a record under the names of the source) and
\* adding its own.

\* Lines 213-215: xyz and chromaticity
ToChromaticity(xyz) == [xyz |-> xyz, chromaticity |-> convertXyzToXyy(xyz)]

DichromacyDecode(rgb, options) == ToChromaticity(convertRgbToXyz(rgb, options))

\* A projection that leaves the colour where it is
ProjectNowhere(d, configuration) ==
    [confusionSlope |-> Zero, confusionYIntercept |-> d.chromaticity.y,
     intersectionX |-> d.chromaticity.x, intersectionY |-> d.chromaticity.y,
     simulatedXyz |-> d.xyz] @@ d

\* Lines 217-230: the confusion line through the source chromaticity and the
\* confusion point, its intersection with the colour axis, and the XYZ colour
\* at the intersection
DichromacyProject(d, configuration) ==
    LET chromaticity == d.chromaticity
        confusionSlope == Div(Sub(chromaticity.y, configuration.y),
                              Sub(chromaticity.x, configuration.x))
        confusionYIntercept == Sub(chromaticity.y, Mul(chromaticity.x, confusionSlope))
        intersectionX == Div(Sub(configuration.yi, confusionYIntercept),
                             Sub(confusionSlope, configuration.m))
        intersectionY == Add(Mul(confusionSlope, intersectionX), confusionYIntercept)
    IN  [confusionSlope |-> confusionSlope,
         confusionYIntercept |-> confusionYIntercept,
         intersectionX |-> intersectionX,
         intersectionY |-> intersectionY,
         simulatedXyz |->
            [X |-> Div(Mul(intersectionX, chromaticity.Y), intersectionY),
             Y |-> chromaticity.Y,
             Z |-> Div(Mul(Sub(One, Add(intersectionX, intersectionY)), chromaticity.Y),
                       intersectionY)]] @@ d

\* Lines 235-252: the linear RGB of the simulated colour, the neutral point of
\* the same luminance and the direction to it
GamutDelta(simulatedXyz, Y) ==
    LET neutralX == Div(Mul(WhiteX, Y), WhiteY)
        neutralZ == Div(Mul(WhiteZ, Y), WhiteY)
    IN  [X |-> Sub(neutralX, simulatedXyz.X), Y |-> Num(0), Z |-> Sub(neutralZ, simulatedXyz.Z)]

DichromacyLinear(d) ==
    [linear   |-> XyzToLinear(d.simulatedXyz.X, d.simulatedXyz.Y, d.simulatedXyz.Z),
     deltaXyz |-> GamutDelta(d.simulatedXyz, d.chromaticity.Y)] @@ d

DichromacyDelta(d) == [delta |-> XyzToLinear(d.deltaXyz.X, d.deltaXyz.Y, d.deltaXyz.Z)] @@ d

\* An adjustment factor that aims at the upper bound 1 whatever the channel is
AdjustFactorUpperOnly(linear, delta) ==
    LET adjust == IF Eq(delta, Zero) THEN Zero ELSE Div(Sub(Num(1), linear), delta)
    IN  IF Gt(adjust, One) \/ Lt(adjust, Zero) THEN Zero ELSE adjust

\* An adjustment factor that is kept whatever its value
AdjustFactorUnclamped(linear, delta) ==
    IF Eq(delta, Zero)
    THEN Zero
    ELSE Div(Sub(IF Lt(linear, Zero) THEN Num(0) ELSE Num(1), linear), delta)

\* One adjustment factor and its clamp (lines 255-262)
AdjustFactor(linear, delta) ==
    LET adjust == IF Eq(delta, Zero)
                  THEN Zero
                  ELSE Div(Sub(IF Lt(linear, Zero) THEN Num(0) ELSE Num(1), linear), delta)
    IN  IF Gt(adjust, One) \/ Lt(adjust, Zero) THEN Zero ELSE adjust

\* Lines 254-265
DichromacyAdjust(d) ==
    [clampedAdjust |-> [r |-> AdjustFactor(d.linear.r, d.delta.r),
                        g |-> AdjustFactor(d.linear.g, d.delta.g),
                        b |-> AdjustFactor(d.linear.b, d.delta.b)]] @@ d

\* A gamut mapping that leaves the simulated colour where it is
ShiftNowhere(d) ==
    [maxAdjust |-> Zero,
     mapped |-> [r |-> d.linear.r, g |-> d.linear.g, b |-> d.linear.b]] @@ d

\* Lines 265-270
DichromacyShift(d) ==
    LET maxAdjust == Max(Max(d.clampedAdjust.r, d.clampedAdjust.g), d.clampedAdjust.b)
    IN  [maxAdjust |-> maxAdjust,
         mapped |-> [r |-> Add(d.linear.r, Mul(maxAdjust, d.delta.r)),
                     g |-> Add(d.linear.g, Mul(maxAdjust, d.delta.g)),
                     b |-> Add(d.linear.b, Mul(maxAdjust, d.delta.b))]] @@ d

\* Lines 232-270: the gamut mapping
DichromacyGamut(d) == DichromacyShift(DichromacyAdjust(DichromacyDelta(DichromacyLinear(d))))

\* Lines 272-274
FinalXyz(d) == [finalXyz |-> convertLinearRgbToXyz(d.mapped.r, d.mapped.g, d.mapped.b)] @@ d

DichromacyEncode(d, options) ==
    LET f == FinalXyz(d) IN [result |-> convertXyzToRgb(f.finalXyz, options)] @@ f

\* Every intermediate value of simulateDichromacy(rgb, configuration, options).
\* Each block works on the finished values of the block before it, which a
\* one-element set holds.
DichromacySteps(rgb, configuration, options) ==
    LET decoded   == {DichromacyDecode(rgb, options)}
        projected == {DichromacyProject(d, configuration) : d \in decoded}
        mapped    == {DichromacyGamut(d) : d \in projected}
        encoded   == {DichromacyEncode(d, options) : d \in mapped}
    IN  CHOOSE d \in encoded : TRUE

\* simulateDichromacy(rgb, configuration, options)
simulateDichromacy(rgb, configuration, options) ==
    DichromacySteps(rgb, configuration, options).result

(***************************************************************************)
(* Strings: parseColorInput and rgbToHex                                   *)
(***************************************************************************)
\* The digits of toString(16)
HexDigits == <<"0", "1", "2", "3", "4", "5", "6", "7", "8", "9",
               "a", "b", "c", "d", "e", "f">>

UpperHexDigits == <<"0", "1", "2", "3", "4", "5", "6", "7", "8", "9",
                    "A", "B", "C", "D", "E", "F">>

\* A digit reader that knows the lower-case digits only
HexValueLowerCase(ch) ==
    IF \E i \in 1..16 : HexDigits[i] = ch
    THEN (CHOOSE i \in 1..16 : HexDigits[i] = ch) - 1
    ELSE -1

\* The value of a hexadecimal digit of either case, -1 for any other character
HexValue(ch) ==
    IF \E i \in 1..16 : HexDigits[i] = ch
    THEN (CHOOSE i \in 1..16 : HexDigits[i] = ch) - 1
    ELSE IF \E i \in 1..16 : UpperHexDigits[i] = ch
    THEN (CHOOSE i \in 1..16 : UpperHexDigits[i] = ch) - 1
    ELSE -1

\* s without its first n characters
Drop(s, n) == SubSeq(s, n + 1, Len(s))

\* input.replace(ch, ''): s without the first occurrence of ch
ReplaceFirst(s, ch) ==
    IF \E i \in 1..Len(s) : s[i] = ch
    THEN LET i == CHOOSE j \in 1..Len(s) : s[j] = ch /\ \A k \in 1..(j - 1) : s[k] # ch
         IN  SubSeq(s, 1, i - 1) \o Drop(s, i)
    ELSE s

\* hex.substr(start, length)
Substr(s, start, length) == SubSeq(s, start + 1, start + length)

\* The value of the longest prefix of hexadecimal digits of s, continuing acc;
\* -1 when s starts with no digit and acc is -1
RECURSIVE HexPrefixValue(_, _)
HexPrefixValue(s, acc) ==
    IF s = <<>> \/ HexValue(Head(s)) < 0 THEN acc
    ELSE HexPrefixValue(Tail(s), (IF acc < 0 THEN 0 ELSE acc * 16) + HexValue(Head(s)))

\* parseInt(s, 16): leading blanks skipped, an optional sign, an optional 0x,
\* then the longest prefix of hexadecimal digits; NaN when there is none
RECURSIVE SkipBlanks(_)
SkipBlanks(s) == IF s # <<>> /\ Head(s) = " " THEN SkipBlanks(Tail(s)) ELSE s

parseInt16(s) ==
    LET t    == SkipBlanks(s)
        sign == IF t # <<>> /\ Head(t) = "-" THEN -1 ELSE 1
        u    == IF t # <<>> /\ Head(t) \in {"-", "+"} THEN Tail(t) ELSE t
        v    == IF Len(u) >= 2 /\ u[1] = "0" /\ u[2] \in {"x", "X"} THEN Drop(u, 2) ELSE u
        n    == HexPrefixValue(v, -1)
    IN  IF n < 0 THEN NaN ELSE Num(sign * n)

\* The error parseColorInput throws on input, "" when it throws none
ParseError(input) ==
    IF input.form = "string" /\ Len(ReplaceFirst(input.chars, "#")) # 6
    THEN "Invalid hex color format"
    ELSE IF input.form = "array" /\ Len(input.elems) # 3
    THEN "RGB array must contain exactly 3 values"
    ELSE ""

\* A property of an object that may lack it: undefined enters arithmetic as NaN
Field(input, i) == IF i <= Len(input.elems) THEN Num(input.elems[i]) ELSE NaN

\* A parser that reads the elements of an array as blue, green, red
parseColorInputReversed(input) ==
    IF input.form = "string"
    THEN LET hex == ReplaceFirst(input.chars, "#")
         IN  [R |-> parseInt16(Substr(hex, 0, 2)),
              G |-> parseInt16(Substr(hex, 2, 2)),
              B |-> parseInt16(Substr(hex, 4, 2))]
    ELSE IF input.form = "array"
    THEN [R |-> Num(input.elems[3]), G |-> Num(input.elems[2]), B |-> Num(input.elems[1])]
    ELSE IF input.form = "object"
    THEN [R |-> Field(input, 1), G |-> Field(input, 2), B |-> Field(input, 3)]
    ELSE [R |-> NaN, G |-> NaN, B |-> NaN]

\* parseColorInput(input) when it does not throw: the hexadecimal pairs of a
\* string, the elements of an array, and any other input returned as it is
parseColorInput(input) ==
    IF input.form = "string"
    THEN LET hex == ReplaceFirst(input.chars, "#")
         IN  [R |-> parseInt16(Substr(hex, 0, 2)),
              G |-> parseInt16(Substr(hex, 2, 2)),
              B |-> parseInt16(Substr(hex, 4, 2))]
    ELSE IF input.form = "array"
    THEN [R |-> Num(input.elems[1]), G |-> Num(input.elems[2]), B |-> Num(input.elems[3])]
    ELSE IF input.form = "object"
    THEN [R |-> Field(input, 1), G |-> Field(input, 2), B |-> Field(input, 3)]
    ELSE [R |-> NaN, G |-> NaN, B |-> NaN]

\* n.toString(16) for an integer n >= 0
RECURSIVE ToString16(_)
ToString16(n) ==
    IF n < 16 THEN <<HexDigits[n + 1]>>
    ELSE ToString16(n \div 16) \o <<HexDigits[(n % 16) + 1]>>

\* toHex(n) of rgbToHex
toHex(n) ==
    LET v   == Round(Max(Num(0), Min(Num(255), n)))
        hex == IF IsNaN(v) THEN <<"N", "a", "N">> ELSE ToString16(ToInt(v))
    IN  IF Len(hex) = 1 THEN <<"0">> \o hex ELSE hex

\* s.toUpperCase()
ToUpperCase(s) ==
    [i \in 1..Len(s) |->
        IF \E k \in 11..16 : HexDigits[k] = s[i]
        THEN UpperHexDigits[CHOOSE k \in 11..16 : HexDigits[k] = s[i]]
        ELSE s[i]]

\* rgbToHex(rgb)
rgbToHex(rgb) == ToUpperCase(<<"#">> \o toHex(rgb.R) \o toHex(rgb.G) \o toHex(rgb.B))

(***************************************************************************)
(* types.ts: the enum ColorBlindnessType, each value the string it is      *)
(***************************************************************************)
Protanopia == <<"p", "r", "o", "t", "a", "n", "o", "p", "i", "a">>

Protanomaly == <<"p", "r", "o", "t", "a", "n", "o", "m", "a", "l", "y">>

Deuteranopia == <<"d", "e", "u", "t", "e", "r", "a", "n", "o", "p", "i", "a">>

Deuteranomaly == <<"d", "e", "u", "t", "e", "r", "a", "n", "o", "m", "a", "l", "y">>

Tritanopia == <<"t", "r", "i", "t", "a", "n", "o", "p", "i", "a">>

Tritanomaly == <<"t", "r", "i", "t", "a", "n", "o", "m", "a", "l", "y">>

Achromatopsia == <<"a", "c", "h", "r", "o", "m", "a", "t", "o", "p", "s", "i", "a">>

Achromatomaly == <<"a", "c", "h", "r", "o", "m", "a", "t", "o", "m", "a", "l", "y">>

ColorBlindnessType ==
    {Protanopia, Protanomaly, Deuteranopia, Deuteranomaly,
     Tritanopia, Tritanomaly, Achromatopsia, Achromatomaly}

(***************************************************************************)
(* simulate, stage by stage                                                *)
(***************************************************************************)
\* s.startsWith(prefix)
StartsWith(s, prefix) == Len(s) >= Len(prefix) /\ SubSeq(s, 1, Len(prefix)) = prefix

\* A choice of configKey that knows the full dichromacies by their whole name
\* and gives every other kind the custom configuration
ConfigKeyOfWholeName(type) ==
    IF type = Protanopia THEN "protan"
    ELSE IF type = Tritanopia THEN "tritan"
    ELSE "custom"

\* The configKey simulate derives from options.type (lines 334-343)
ConfigKey(type) ==
    IF StartsWith(type, <<"p", "r", "o", "t", "a", "n">>) THEN "protan"
    ELSE IF StartsWith(type, <<"d", "e", "u", "t", "a", "n">>) THEN "deutan"
    ELSE IF StartsWith(type, <<"t", "r", "i", "t", "a", "n">>) THEN "tritan"
    ELSE "custom"

\* The test of line 329
IsAchromatic(type) == type = Achromatopsia \/ type = Achromatomaly

\* { ...DEFAULT_OPTIONS, ...options }: a key options leaves out keeps its default
FullOptions(options) ==
    [colorProfile    |-> IF options.colorProfile = "unset"
                         THEN tables.DEFAULT_OPTIONS.colorProfile ELSE options.colorProfile,
     gammaCorrection |-> IF options.gammaCorrection = <<>>
                         THEN tables.DEFAULT_OPTIONS.gammaCorrection ELSE options.gammaCorrection]

\* options.anomalize as a condition: an omitted anomalize is falsy
Anomalize(options) == options.anomalize = "true"

\* The anomalous blend of simulate (lines 354-363)
AnomalousBlend(sim, rgb) ==
    [R |-> BlendChannel(sim.R, rgb.R),
     G |-> BlendChannel(sim.G, rgb.G),
     B |-> BlendChannel(sim.B, rgb.B)]

\* x || 0 on a number: NaN and 0 are falsy
OrZero(x) == IF IsNaN(x) \/ Eq(x, Zero) THEN Num(0) ELSE x

\* Lines 367-369 without the "|| 0" of each line
ClampWithoutDefault(sim) ==
    [R |-> Max(Num(0), Min(Num(255), sim.R)),
     G |-> Max(Num(0), Min(Num(255), sim.G)),
     B |-> Max(Num(0), Min(Num(255), sim.B))]

\* Lines 367-369
ClampRgb(sim) ==
    [R |-> Max(Num(0), Min(Num(255), OrZero(sim.R))),
     G |-> Max(Num(0), Min(Num(255), OrZero(sim.G))),
     B |-> Max(Num(0), Min(Num(255), OrZero(sim.B)))]

\* The options each wrapper passes to simulate (lines 378-436)
WrapperNames ==
    {"protanopia", "protanomaly", "deuteranopia", "deuteranomaly",
     "tritanopia", "tritanomaly", "achromatopsia", "achromatomaly"}

Opts(type, anomalize) ==
    [type |-> type, anomalize |-> anomalize, colorProfile |-> "unset", gammaCorrection |-> <<>>]

\* Wrappers that never set anomalize
WrapperOptionsUnset(w) ==
    CASE w = "protanopia"    -> Opts(Protanopia, "unset")
      [] w = "protanomaly"   -> Opts(Protanomaly, "unset")
      [] w = "deuteranopia"  -> Opts(Deuteranopia, "unset")
      [] w = "deuteranomaly" -> Opts(Deuteranomaly, "unset")
      [] w = "tritanopia"    -> Opts(Tritanopia, "unset")
      [] w = "tritanomaly"   -> Opts(Tritanomaly, "unset")
      [] w = "achromatopsia" -> Opts(Achromatopsia, "unset")
      [] w = "achromatomaly" -> Opts(Achromatomaly, "unset")

WrapperOptions(w) ==
    CASE w = "protanopia"    -> Opts(Protanopia, "unset")
      [] w = "protanomaly"   -> Opts(Protanomaly, "true")
      [] w = "deuteranopia"  -> Opts(Deuteranopia, "unset")
      [] w = "deuteranomaly" -> Opts(Deuteranomaly, "true")
      [] w = "tritanopia"    -> Opts(Tritanopia, "unset")
      [] w = "tritanomaly"   -> Opts(Tritanomaly, "true")
      [] w = "achromatopsia" -> Opts(Achromatopsia, "unset")
      [] w = "achromatomaly" -> Opts(Achromatomaly, "true")

\* What is left in simulated before the clamp (lines 329-364)
SimulatedOf(rgb, options) ==
    IF IsAchromatic(options.type)
    THEN simulateAchromatopsia(rgb, Anomalize(options))
    ELSE LET sims == {simulateDichromacy(rgb,
                                         tables.BLINDNESS_CONFIGURATIONS[ConfigKey(options.type)],
                                         FullOptions(options))}
         IN  IF Anomalize(options)
             THEN CHOOSE blended \in {AnomalousBlend(sim, rgb) : sim \in sims} : TRUE
             ELSE CHOOSE sim \in sims : TRUE

\* A whole call simulate(input, options): the error it throws ("" when none)
\* and the string it returns (<<>> when it throws)
simulate(input, options) ==
    IF ParseError(input) # ""
    THEN [error |-> ParseError(input), value |-> <<>>]
    ELSE IF input.form = "null"
    THEN [error |-> "TypeError", value |-> <<>>]
    ELSE LET parsed  == {parseColorInput(input)}
             sims    == {SimulatedOf(color, options) : color \in parsed}
             clamped == {ClampRgb(sim) : sim \in sims}
         IN  [error |-> "",
              value |-> CHOOSE hex \in {rgbToHex(color) : color \in clamped} : TRUE]

(***************************************************************************)
(* The calls the model makes                                               *)
(***************************************************************************)
\* The longest malformed hexadecimal string and array the model passes in
MaxHexLen == 8

MaxArrayLen == 4

\* The colours passed in: black, white, the primaries, a gray and a near-black
Colors ==
    {<<0, 0, 0>>, <<255, 255, 255>>, <<255, 0, 0>>, <<0, 255, 0>>, <<0, 0, 255>>,
     <<128, 128, 128>>, <<1, 0, 0>>}

StringInput(chars) == [form |-> "string", chars |-> chars, elems |-> <<>>]

ArrayInput(elems) == [form |-> "array", chars |-> <<>>, elems |-> elems]

ObjectInput(elems) == [form |-> "object", chars |-> <<>>, elems |-> elems]

\* Two hexadecimal digits of a channel value, in lower case
TwoDigits(n) == <<HexDigits[(n \div 16) + 1], HexDigits[(n % 16) + 1]>>

\* The spelling of colour c as a string, in upper or lower case, with or
\* without the leading '#'
HexString(c, upper, hash) ==
    LET body == TwoDigits(c[1]) \o TwoDigits(c[2]) \o TwoDigits(c[3])
    IN  (IF hash THEN <<"#">> ELSE <<>>) \o (IF upper THEN ToUpperCase(body) ELSE body)

\* n times the element ch
Repeat(ch, n) == [i \in 1..n |-> ch]

\* The well-formed inputs: every colour in each of its forms
ColorInputs ==
    {StringInput(HexString(c, u, h)) : c \in Colors, u \in BOOLEAN, h \in BOOLEAN}
    \cup {ArrayInput(c) : c \in Colors}
    \cup {ObjectInput(c) : c \in Colors}

\* Strings and arrays of a wrong length
WrongLengthInputs ==
    {StringInput((IF h THEN <<"#">> ELSE <<>>) \o Repeat("F", n)) :
        n \in (0..MaxHexLen) \ {6}, h \in BOOLEAN}
    \cup {ArrayInput(Repeat(255, n)) : n \in (0..MaxArrayLen) \ {3}}

\* Strings of the accepted length that are no six hexadecimal digits
NonHexInputs ==
    {StringInput(<<"G", "G", "G", "G", "G", "G">>),
     StringInput(<<"#", "G", "G", "0", "0", "f", "f">>),
     StringInput(<<"1", "G", "f", "f", "0", "G">>),
     StringInput(<<"#", "#", "F", "F", "F", "F", "F">>),
     StringInput(<<"F", "F", "#", "F", "F", "0", "0">>),
     StringInput(<<"F", "#", "F", "F", "F", "F", "#">>),
     StringInput(<<"-", "1", "0", "x", " ", "a">>)}

\* Values that are no string, no array and no RGB record: a number, null, {}
OtherInputs ==
    {[form |-> "number", chars |-> <<>>, elems |-> <<42>>],
     [form |-> "null", chars |-> <<>>, elems |-> <<>>],
     ObjectInput(<<>>)}

\* An array of numbers outside 0..255, which parseColorInput accepts as it is:
\* with a linear transfer curve its chromaticity lies on the line through the
\* tritan confusion point that is parallel to the tritan colour axis
ParallelInputs == {ArrayInput(<<8000000, -1600000, -5685908>>)}

Inputs ==
    ColorInputs \cup WrongLengthInputs \cup NonHexInputs \cup OtherInputs \cup ParallelInputs

\* The option objects passed to simulate
OptionSets ==
    {[type |-> t, anomalize |-> a, colorProfile |-> p[1], gammaCorrection |-> p[2]] :
        t \in ColorBlindnessType,
        a \in {"unset", "false", "true"},
        p \in {<<"unset", <<>>>>, <<"generic", <<>>>>, <<"generic", <<1, 1>>>>,
               <<"generic", <<1, 2>>>>, <<"sRGB", <<1, 1>>>>, <<"sRGB", <<11, 5>>>>}}

(***************************************************************************)
(* The state machine: one call at a time, a stage of simulate per step     *)
(***************************************************************************)
VARIABLES
    pc,         \* where the call is: idle, parse, select, project, gamut, encode,
                \* blend, clamp, format, done, thrown
    entry,      \* the exported function that was called
    input,      \* its first argument
    options,    \* the options simulate runs with
    rgb,        \* the result of parseColorInput
    configKey,  \* the key into BLINDNESS_CONFIGURATIONS ("" before it is chosen)
    steps,      \* the local values of simulateDichromacy computed so far
    simulated,  \* the local variable simulated
    result,     \* the returned string (<<>> when none)
    error,      \* the error thrown ("" when none)
    trace,      \* the stages the call has run, in order
    heap        \* the caller's two argument objects as they are now, and the objects
                \* that the locals rgb and simulated refer to

vars == <<pc, entry, input, options, rgb, configKey, steps, simulated, result, error, trace,
          tables, heap>>

NoInput == [form |-> "none", chars |-> <<>>, elems |-> <<>>]

NoOptions == Opts(<<>>, "unset")

NoColor == [R |-> NaN, G |-> NaN, B |-> NaN]

NoSteps == [none |-> TRUE]

\* No call is running: there are no argument objects and the locals refer to
\* nothing
NoHeap == [input |-> NoInput, options |-> NoOptions, rgb |-> "none", simulated |-> "none"]

\* The object parseColorInput returns: a new object literal for a string (lines
\* 288-292) and for an array (line 300), its argument itself for anything else
\* (line 303)
ParsedObject(i) == IF i.form \in {"string", "array"} THEN "literal" ELSE "input"

\* The caller's options object after { ...DEFAULT_OPTIONS, ...options } (line
\* 324): the spread copies its keys into a new object literal and writes
\* nothing into it
SpreadLeaves(o) == o

\* A simulation that writes its result into its parameter rgb and returns it
ReturnedObjectInPlace(rgbObject) == rgbObject

\* The object simulateAchromatopsia and simulateDichromacy return: a new object
\* literal (lines 187 and 193-197, lines 159-163), never their parameter rgb
ReturnedObject(rgbObject) == "literal"

\* simulated.R = ..., simulated.G = ..., simulated.B = ... (lines 367-369): the
\* three channels are written into the object simulated refers to.  Were it
\* the caller's record, then the record would hold them; a simulated that is
\* no object literal of simulate holds rounded channels.
WriteChannels(h, sim) ==
    IF h.simulated = "input"
    THEN [h EXCEPT !.input.elems = <<ToInt(sim.R), ToInt(sim.G), ToInt(sim.B)>>]
    ELSE h

Init ==
    /\ pc = "idle"
    /\ entry = ""
    /\ input = NoInput
    /\ options = NoOptions
    /\ rgb = NoColor
    /\ configKey = ""
    /\ steps = NoSteps
    /\ simulated = NoColor
    /\ result = <<>>
    /\ error = ""
    /\ trace = <<>>
    /\ tables = ModuleObjects
    /\ heap = NoHeap

\* A call enters simulate with its arguments
Enter(e, i, o) ==
    /\ pc' = "parse"
    /\ entry' = e
    /\ input' = i
    /\ options' = o
    /\ heap' = [input |-> i, options |-> o, rgb |-> "none", simulated |-> "none"]
    /\ UNCHANGED <<rgb, configKey, steps, simulated, result, error, trace, tables>>

\* simulate(input, options)
CallSimulate ==
    /\ pc = "idle"
    /\ \E i \in Inputs, o \in OptionSets : Enter("simulate", i, o)

\* protanopia(input) ... achromatomaly(input)
CallWrapper ==
    /\ pc = "idle"
    /\ \E w \in WrapperNames, i \in Inputs : Enter(w, i, WrapperOptions(w))

\* Line 323: parseColorInput, which throws or gives rgb
Parse ==
    /\ pc = "parse"
    /\ trace' = Append(trace, "parse")
    /\ IF ParseError(input) # ""
       THEN /\ pc' = "thrown"
            /\ error' = ParseError(input)
            /\ UNCHANGED <<rgb, heap>>
       ELSE /\ pc' = "select"
            /\ rgb' = parseColorInput(input)
            /\ heap' = [heap EXCEPT !.rgb = ParsedObject(input),
                                    !.options = SpreadLeaves(heap.options)]
            /\ UNCHANGED error
    /\ UNCHANGED <<entry, input, options, configKey, steps, simulated, result, tables>>

\* Lines 329-330: the achromatic path.  Reading rgb.R of null throws.
AchromaticPath ==
    /\ pc = "select"
    /\ IsAchromatic(options.type)
    /\ trace' = Append(trace, "achromatic")
    /\ IF input.form = "null"
       THEN /\ pc' = "thrown"
            /\ error' = "TypeError"
            /\ UNCHANGED <<simulated, heap>>
       ELSE /\ pc' = "clamp"
            /\ simulated' = simulateAchromatopsia(rgb, Anomalize(options))
            /\ heap' = [heap EXCEPT !.simulated = ReturnedObject(heap.rgb)]
            /\ UNCHANGED error
    /\ UNCHANGED <<entry, input, options, rgb, configKey, steps, result, tables>>

\* The dichromatic path building fullOptions with
\* Object.assign(DEFAULT_OPTIONS, options), which writes the merged options
\* into DEFAULT_OPTIONS
DichromaticPathAssigningDefaults ==
    /\ pc = "select"
    /\ ~IsAchromatic(options.type)
    /\ configKey' = ConfigKey(options.type)
    /\ tables' = [tables EXCEPT !.DEFAULT_OPTIONS = FullOptions(options)]
    /\ IF configKey' \notin DOMAIN tables.BLINDNESS_CONFIGURATIONS
       THEN /\ pc' = "thrown"
            /\ error' = "Unsupported color blindness type"
            /\ UNCHANGED <<steps, trace>>
       ELSE IF input.form = "null"
       THEN /\ pc' = "thrown"
            /\ error' = "TypeError"
            /\ trace' = Append(trace, "decode")
            /\ UNCHANGED steps
       ELSE /\ pc' = "project"
            /\ steps' = DichromacyDecode(rgb, FullOptions(options))
            /\ trace' = Append(trace, "decode")
            /\ UNCHANGED error
    /\ UNCHANGED <<entry, input, options, rgb, simulated, result, heap>>

\* Lines 331-351 and 213-215: the choice of the configuration, then the entry
\* into simulateDichromacy, whose first block decodes the gamma
DichromaticPath ==
    /\ pc = "select"
    /\ ~IsAchromatic(options.type)
    /\ configKey' = ConfigKey(options.type)
    /\ IF configKey' \notin DOMAIN tables.BLINDNESS_CONFIGURATIONS
       THEN /\ pc' = "thrown"
            /\ error' = "Unsupported color blindness type"
            /\ UNCHANGED <<steps, trace>>
       ELSE IF input.form = "null"
       THEN /\ pc' = "thrown"
            /\ error' = "TypeError"
            /\ trace' = Append(trace, "decode")
            /\ UNCHANGED steps
       ELSE /\ pc' = "project"
            /\ steps' = DichromacyDecode(rgb, FullOptions(options))
            /\ trace' = Append(trace, "decode")
            /\ UNCHANGED error
    /\ UNCHANGED <<entry, input, options, rgb, simulated, result, tables, heap>>

\* Lines 217-230
Project ==
    /\ pc = "project"
    /\ pc' = "gamut"
    /\ steps' = DichromacyProject(steps, tables.BLINDNESS_CONFIGURATIONS[configKey])
    /\ trace' = Append(trace, "project")
    /\ UNCHANGED <<entry, input, options, rgb, configKey, simulated, result, error, tables, heap>>

\* Lines 232-270
GamutMap ==
    /\ pc = "gamut"
    /\ pc' = "encode"
    /\ steps' = DichromacyGamut(steps)
    /\ trace' = Append(trace, "gamut")
    /\ UNCHANGED <<entry, input, options, rgb, configKey, simulated, result, error, tables, heap>>

\* The end of simulateDichromacy followed by the blend whatever anomalize is
EncodeThenBlend ==
    /\ pc = "encode"
    /\ pc' = "blend"
    /\ steps' = DichromacyEncode(steps, FullOptions(options))
    /\ simulated' = steps'.result
    /\ heap' = [heap EXCEPT !.simulated = ReturnedObject(heap.rgb)]
    /\ trace' = Append(trace, "encode")
    /\ UNCHANGED <<entry, input, options, rgb, configKey, result, error, tables>>

\* Lines 272-274 and 351: the result of simulateDichromacy becomes simulated
Encode ==
    /\ pc = "encode"
    /\ pc' = IF Anomalize(options) THEN "blend" ELSE "clamp"
    /\ steps' = DichromacyEncode(steps, FullOptions(options))
    /\ simulated' = steps'.result
    /\ heap' = [heap EXCEPT !.simulated = ReturnedObject(heap.rgb)]
    /\ trace' = Append(trace, "encode")
    /\ UNCHANGED <<entry, input, options, rgb, configKey, result, error, tables>>

\* Lines 354-363: the anomalous blend of the dichromatic path
Blend ==
    /\ pc = "blend"
    /\ pc' = "clamp"
    /\ simulated' = AnomalousBlend(simulated, rgb)
    /\ heap' = [heap EXCEPT !.simulated = "literal"]
    /\ trace' = Append(trace, "blend")
    /\ UNCHANGED <<entry, input, options, rgb, configKey, steps, result, error, tables>>

\* Lines 367-369
Clamp ==
    /\ pc = "clamp"
    /\ pc' = "format"
    /\ simulated' = ClampRgb(simulated)
    /\ heap' = WriteChannels(heap, simulated')
    /\ trace' = Append(trace, "clamp")
    /\ UNCHANGED <<entry, input, options, rgb, configKey, steps, result, error, tables>>

\* Line 371: rgbToHex and the return
Format ==
    /\ pc = "format"
    /\ pc' = "done"
    /\ result' = rgbToHex(simulated)
    /\ trace' = Append(trace, "format")
    /\ UNCHANGED <<entry, input, options, rgb, configKey, steps, simulated, error, tables, heap>>

\* The caller takes the result or the error; the next call starts afresh
Return ==
    /\ pc \in {"done", "thrown"}
    /\ pc' = "idle"
    /\ entry' = ""
    /\ input' = NoInput
    /\ options' = NoOptions
    /\ rgb' = NoColor
    /\ configKey' = ""
    /\ steps' = NoSteps
    /\ simulated' = NoColor
    /\ result' = <<>>
    /\ error' = ""
    /\ trace' = <<>>
    /\ heap' = NoHeap
    /\ UNCHANGED tables

Next ==
    \/ CallSimulate
    \/ CallWrapper
    \/ Parse
    \/ AchromaticPath
    \/ DichromaticPath
    \/ Project
    \/ GamutMap
    \/ Encode
    \/ Blend
    \/ Clamp
    \/ Format
    \/ Return

Spec == Init /\ [][Next]_vars

(***************************************************************************)
(* The properties                                                          *)
(***************************************************************************)
\* '#' followed by exactly six uppercase hexadecimal digits
IsHexColor(s) ==
    /\ Len(s) = 7
    /\ s[1] = "#"
    /\ \A k \in 2..7 : \E j \in 1..16 : UpperHexDigits[j] = s[k]

\* The call has ended, by a return or by a throw
Ended == pc \in {"done", "thrown"}

\* C1: a call of simulate on a colour with channels in 0..255, in any of the
\* three input forms, under any kind, anomalize, colour profile and gamma,
\* does not throw and returns '#' followed by six uppercase hexadecimal digits.
C1_RangeClosure ==
    (Ended /\ input \in ColorInputs) => (pc = "done" /\ error = "" /\ IsHexColor(result))

\* C1 is exercised: tritanomaly of black under the generic profile, where the
\* simulation yields NaN channels, has returned
C1_Witness ==
    /\ pc = "done"
    /\ input = ObjectInput(<<0, 0, 0>>)
    /\ options.type = Tritanomaly
    /\ options.colorProfile = "generic"
    /\ steps # NoSteps
    /\ IsNaN(steps.result.R)

\* C2: the configuration is chosen by family: the protan constants for
\* Protanopia and Protanomaly, the deutan constants for Deuteranopia and
\* Deuteranomaly, the tritan constants for Tritanopia and Tritanomaly, and
\* the custom configuration for none of the eight kinds.
C2_ConfigByFamily ==
    configKey # "" =>
        /\ options.type \in {Protanopia, Protanomaly} => configKey = "protan"
        /\ options.type \in {Deuteranopia, Deuteranomaly} => configKey = "deutan"
        /\ options.type \in {Tritanopia, Tritanomaly} => configKey = "tritan"
        /\ configKey # "custom"

\* The channels of a returned string
ChannelsOf(hex) ==
    LET color == parseColorInput(StringInput(hex))
    IN  <<ToInt(color.R), ToInt(color.G), ToInt(color.B)>>

\* The returned colour has R = G = B
GrayResult(hex) == ChannelsOf(hex)[1] = ChannelsOf(hex)[2] /\ ChannelsOf(hex)[2] = ChannelsOf(hex)[3]

\* A call on a colour with the kind Achromatopsia or Achromatomaly has returned
AchromaticDone == pc = "done" /\ input \in ColorInputs /\ IsAchromatic(options.type)

\* C3 as the specification states it: for every input colour the output for
\* Achromatopsia and Achromatomaly has R = G = B, whatever anomalize is, through
\* simulate and through the wrappers achromatopsia() and achromatomaly().
C3_AchromaticAlways == AchromaticDone => GrayResult(result)

\* C3 as the code has it: the output for Achromatopsia and Achromatomaly has
\* R = G = B when anomalize is false or left out (the wrapper achromatopsia()
\* included) and when the input itself has R = G = B.
C3_AchromaticGray ==
    (AchromaticDone /\ (~Anomalize(options) \/ (rgb.R = rgb.G /\ rgb.G = rgb.B)))
        => GrayResult(result)

\* C3 is exercised: Achromatomaly of pure red without anomalize has returned
C3_Witness ==
    /\ AchromaticDone
    /\ options.type = Achromatomaly
    /\ ~Anomalize(options)
    /\ rgb = [R |-> Num(255), G |-> Num(0), B |-> Num(0)]
    /\ GrayResult(result)
    /\ result # <<"#", "0", "0", "0", "0", "0", "0">>

\* The '-opia' kind of the family of an '-omaly' kind
OpiaOf(type) ==
    CASE type = Protanomaly   -> Protanopia
      [] type = Deuteranomaly -> Deuteranopia
      [] type = Tritanomaly   -> Tritanopia
      [] type = Achromatomaly -> Achromatopsia

\* A call on a colour with an '-omaly' kind and anomalize true has returned
AnomalyDone ==
    /\ pc = "done"
    /\ input \in ColorInputs
    /\ options.type \in {Protanomaly, Deuteranomaly, Tritanomaly, Achromatomaly}
    /\ Anomalize(options)

\* The colour passed in, the '-omaly' output and the '-opia' output for the
\* same colour and options
Original == <<ToInt(rgb.R), ToInt(rgb.G), ToInt(rgb.B)>>

Part == ChannelsOf(result)

Full ==
    ChannelsOf(simulate(input, [options EXCEPT !.type = OpiaOf(@), !.anomalize = "unset"]).value)

\* The squared Euclidean distance of two colours
Dist2(a, b) ==
    (a[1] - b[1]) * (a[1] - b[1]) + (a[2] - b[2]) * (a[2] - b[2])
        + (a[3] - b[3]) * (a[3] - b[3])

\* Channel k of the dichromatic simulation is a number (the achromatic path
\* yields numbers only)
NumericChannel(k) ==
    \/ steps = NoSteps
    \/ ~IsNaN(CASE k = 1 -> steps.result.R [] k = 2 -> steps.result.G [] k = 3 -> steps.result.B)

StrictlyCloser(c, part, full) == full # c => Dist2(c, part) < Dist2(c, full)

\* C4 as the specification states it: whenever the '-opia' output differs from
\* the colour, the '-omaly' output is strictly closer to the colour than the
\* '-opia' output is.
C4_StrictlyCloser == AnomalyDone => StrictlyCloser(Original, Part, Full)

Ordered(c, part, full) ==
    /\ Dist2(c, part) <= Dist2(c, full)
    /\ (\E k \in 1..3 : NumericChannel(k) /\ Abs(full[k] - c[k]) >= 2)
          => Dist2(c, part) < Dist2(c, full)
    /\ (\A k \in 1..3 : Abs(full[k] - c[k]) <= 1) => part = full

\* C4 as the code has it: the '-omaly' output is never farther from the colour
\* than the '-opia' output; it is strictly closer when some channel of the
\* '-opia' output, computed as a number, differs from the colour by 2 or more;
\* and it equals the '-opia' output when every channel differs by at most 1.
C4_AnomalyOrdering == AnomalyDone => Ordered(Original, Part, Full)

\* C4 is exercised: protanomaly of pure red has returned '#B8510F', closer to
\* red than the '#907F17' of protanopia
C4_Witness ==
    /\ AnomalyDone
    /\ options.type = Protanomaly
    /\ options.colorProfile = "unset"
    /\ Original = <<255, 0, 0>>
    /\ result = <<"#", "B", "8", "5", "1", "0", "F">>
    /\ Full = <<144, 127, 23>>

\* s without any occurrence of ch
RemoveAll(s, ch) == SelectSeq(s, LAMBDA x : x # ch)

\* A string whose length without '#' is not 6, or an array whose length is not 3
WrongLength(i) ==
    \/ i.form = "string" /\ Len(RemoveAll(i.chars, "#")) # 6
    \/ i.form = "array" /\ Len(i.elems) # 3

\* The call was ended by parseColorInput: it threw, no colour was returned
\* and no stage but the parsing has run
RejectedByParser ==
    /\ pc = "thrown"
    /\ error \in {"Invalid hex color format", "RGB array must contain exactly 3 values"}
    /\ result = <<>>
    /\ trace = <<"parse">>

\* The parsing of the call is over
Parsed == pc \notin {"idle", "parse"}

\* C5: simulate and every wrapper throw, and return no colour, when the input
\* is a string whose length after removing '#' is not 6 or an array whose
\* length is not 3, and the error is raised by the parsing, before any
\* simulation stage runs.
C5_WrongLengthThrows == (Parsed /\ WrongLength(input)) => RejectedByParser

\* Six hexadecimal digits with an optional leading '#'
IsHexString(chars) ==
    LET digits == IF chars # <<>> /\ Head(chars) = "#" THEN Tail(chars) ELSE chars
    IN  Len(digits) = 6 /\ \A k \in 1..6 : HexValue(digits[k]) >= 0

\* C6: every string that is not six hexadecimal digits with an optional
\* leading '#' is rejected with an error and yields no colour, a string of the
\* right length with other characters included.
C6_NonHexRejected ==
    (Parsed /\ input.form = "string" /\ ~IsHexString(input.chars))
        => (pc = "thrown" /\ result = <<>>)

\* An input that is no string, no array and no record with numeric R, G and B
Unrecognized(i) ==
    /\ i.form \notin {"none", "string", "array"}
    /\ ~(i.form = "object" /\ Len(i.elems) = 3)

\* C7: an input of an unrecognized type is rejected by the parsing step with
\* its format error, and is not passed on to the simulation.
C7_UnrecognizedRejected == (Parsed /\ Unrecognized(input)) => RejectedByParser

(***************************************************************************)
(* The forms of a colour                                                   *)
(***************************************************************************)
\* The four spellings of colour c as a string
Spellings(c) == {StringInput(HexString(c, u, h)) : u \in BOOLEAN, h \in BOOLEAN}

\* Every form colour c is passed in
FormsOf(c) == Spellings(c) \cup {ArrayInput(c), ObjectInput(c)}

\* The colour a well-formed input stands for
ColorOf(i) == CHOOSE c \in Colors : i \in FormsOf(c)

\* Colour c as the record parseColorInput gives
RgbOf(c) == [R |-> Num(c[1]), G |-> Num(c[2]), B |-> Num(c[3])]

\* A call on a well-formed input has returned
ColorDone == pc = "done" /\ input \in ColorInputs

\* C8: the three input forms are equivalent.  Whenever a call on the hex
\* string, the array or the record of an in-range colour (r,g,b) returns, with
\* any kind and any options, what it returns is what simulate returns with the
\* same options for the record {R:r,G:g,B:b} and for the array [r,g,b] of that
\* colour; so all forms of one colour give the identical result.
C8_FormsEquivalent ==
    ColorDone =>
        /\ rgb = RgbOf(ColorOf(input))
        /\ result = simulate(ObjectInput(ColorOf(input)), options).value
        /\ input.form = "object" =>
               result = simulate(ArrayInput(ColorOf(input)), options).value

\* C8 happens: the array [255,0,0] has gone through tritanopia with the default
\* options and returned what the string '#FF0000' returns, a colour other than red
C8_Witness ==
    /\ pc = "done"
    /\ input = ArrayInput(<<255, 0, 0>>)
    /\ options = Opts(Tritanopia, "unset")
    /\ result = simulate(StringInput(HexString(<<255, 0, 0>>, TRUE, TRUE)), options).value
    /\ result # HexString(<<255, 0, 0>>, TRUE, TRUE)

\* C9: hex parsing is case-insensitive and the leading '#' is optional.
\* Whenever a call on a spelling of a six-hex-digit colour returns, the RGB
\* value it parsed is the one every spelling of that colour parses to (upper
\* or lower case, with or without '#'), it is the colour spelled, and the
\* result is the one simulate gives for the lower-case spelling without '#'.
C9_SpellingsEquivalent ==
    (ColorDone /\ input.form = "string") =>
        /\ \A other \in Spellings(ColorOf(input)) : parseColorInput(other) = rgb
        /\ rgb = RgbOf(ColorOf(input))
        /\ result = simulate(StringInput(HexString(ColorOf(input), FALSE, FALSE)),
                             options).value

\* C9 happens: the upper-case spelling 'FFFFFF' without '#' has gone through
\* protanomaly and returned what the lower-case '#ffffff' returns
C9_Witness ==
    /\ pc = "done"
    /\ input = StringInput(<<"F", "F", "F", "F", "F", "F">>)
    /\ options.type = Protanomaly
    /\ Anomalize(options)
    /\ rgb = RgbOf(<<255, 255, 255>>)
    /\ result = simulate(StringInput(<<"#", "f", "f", "f", "f", "f", "f">>), options).value

\* The kind a convenience function is named after
KindNamed(name) ==
    CASE name = "protanopia"    -> Protanopia
      [] name = "protanomaly"   -> Protanomaly
      [] name = "deuteranopia"  -> Deuteranopia
      [] name = "deuteranomaly" -> Deuteranomaly
      [] name = "tritanopia"    -> Tritanopia
      [] name = "tritanomaly"   -> Tritanomaly
      [] name = "achromatopsia" -> Achromatopsia
      [] name = "achromatomaly" -> Achromatomaly

\* The '-omaly' functions
AnomalyNames == {"protanomaly", "deuteranomaly", "tritanomaly", "achromatomaly"}

\* The call of simulate a convenience function stands for
AppliedSimulate ==
    simulate(input, Opts(KindNamed(entry),
                         IF entry \in AnomalyNames THEN "true" ELSE "unset"))

\* C10: each of the eight convenience functions is a fixed partial application
\* of simulate.  Whenever a call of a convenience function on any input, valid
\* or not, ends, it has thrown exactly when simulate throws for that input
\* with the same-named kind (anomalize unset for the '-opia' functions, true
\* for the '-omaly' ones), with the same error, and otherwise it has returned
\* the same string.
C10_WrappersApplySimulate ==
    (Ended /\ entry \in WrapperNames) =>
        /\ (pc = "thrown") = (AppliedSimulate.error # "")
        /\ error = AppliedSimulate.error
        /\ result = AppliedSimulate.value

\* C10 happens: tritanomaly('#FF0000') has returned the blend that
\* simulate gives with anomalize true, which tritanopia's options do not give
C10_Witness ==
    /\ pc = "done"
    /\ entry = "tritanomaly"
    /\ input = StringInput(HexString(<<255, 0, 0>>, TRUE, TRUE))
    /\ result = simulate(input, Opts(Tritanomaly, "true")).value
    /\ result # simulate(input, Opts(Tritanopia, "unset")).value

(***************************************************************************)
(* Independence of the calls                                               *)
(***************************************************************************)
\* What a call that has ended gave its caller
Outcome == [error |-> error, value |-> result]

\* C11: simulate is deterministic and history-independent.  In every state of
\* every sequence of calls (simulate and the wrappers, valid and invalid
\* inputs, in any order), the confusion-axis table, the matrices and the
\* default options are as the module defines them, so no call changes them;
\* and every call that has ended has given the error or the string that is the
\* function of its own input and options, whatever calls ran before it.
C11_HistoryIndependent ==
    /\ tables = ModuleObjects
    /\ Ended => Outcome = simulate(input, options)

\* C11 happens: protanomaly with a generic profile on the record
\* {R:255,G:0,B:0} has read all three module objects, has written its own
\* local simulated in the blend and the clamp, and has returned
C11_Witness ==
    /\ pc = "done"
    /\ input = ObjectInput(<<255, 0, 0>>)
    /\ options.type = Protanomaly
    /\ options.anomalize = "true"
    /\ options.colorProfile = "generic"
    /\ options.gammaCorrection = <<>>
    /\ simulated # steps.result
    /\ tables = ModuleObjects
    /\ Outcome = simulate(input, options)

(***************************************************************************)
(* Black, white and the grays                                              *)
(***************************************************************************)
\* Every channel of the returned string hex is within tol of the colour c
Within(hex, c, tol) == \A k \in 1..3 : Abs(ChannelsOf(hex)[k] - c[k]) <= tol

\* The options of a call that gives the kind only
KindOnly == {Opts(type, "unset") : type \in ColorBlindnessType}

\* C12: near-identity on the neutrals.  Whenever simulate, called with one of
\* the eight kinds and no other option, returns for #000000 (in any of its
\* forms), every channel of the result is at most 2; whenever it returns for
\* #FFFFFF, every channel of the result is at least 253.
C12_NeutralsPreserved ==
    (pc = "done" /\ options \in KindOnly
                /\ input \in FormsOf(<<0, 0, 0>>) \cup FormsOf(<<255, 255, 255>>)) =>
        Within(result, ColorOf(input), 2)

\* C12 happens: simulate('#FFFFFF', {type: Deuteranopia}) has returned white,
\* its projection lying outside the gamut and the gamut mapping shifting it
\* back to the neutral point
C12_Witness ==
    /\ pc = "done"
    /\ input = StringInput(HexString(<<255, 255, 255>>, TRUE, TRUE))
    /\ options = Opts(Deuteranopia, "unset")
    /\ steps # NoSteps
    /\ Gt(steps.linear.r, One)
    /\ Gt(steps.maxAdjust, Zero)
    /\ result = HexString(<<255, 255, 255>>, TRUE, TRUE)

\* The gray (v,v,v) in each input form
GrayForms(v) ==
    {StringInput(HexString(<<v, v, v>>, TRUE, TRUE)), ArrayInput(<<v, v, v>>),
     ObjectInput(<<v, v, v>>)}

\* Every gray there is: a channel is an integer from 0 to 255
GrayInputs == UNION {GrayForms(v) : v \in 0..255}

\* The options of the achromatic path
AchromaticOptionSets ==
    {Opts(type, anomalize) : type \in {Achromatopsia, Achromatomaly},
                             anomalize \in {"unset", "false", "true"}}

\* simulate on a gray with an achromatic kind
CallOnGray ==
    /\ pc = "idle"
    /\ \E i \in GrayInputs, o \in AchromaticOptionSets : Enter("simulate", i, o)

GrayNext ==
    \/ CallOnGray
    \/ Parse
    \/ AchromaticPath
    \/ Clamp
    \/ Format
    \/ Return

\* The calls of simulate on the grays
GraySpec == Init /\ [][GrayNext]_vars

\* The channel value of a gray input
GrayValue(i) == CHOOSE v \in 0..255 : i \in GrayForms(v)

\* C13: every gray is a fixed point of total achromatopsia.  For every integer
\* v from 0 to 255, whenever simulate returns for the gray (v,v,v), in any
\* form, with the kind Achromatopsia and anomalize false or left out, the
\* result is exactly (v,v,v).
C13_GrayFixedPoint ==
    (pc = "done" /\ input \in GrayInputs /\ options.type = Achromatopsia
                /\ ~Anomalize(options)) =>
        ChannelsOf(result) = <<GrayValue(input), GrayValue(input), GrayValue(input)>>

\* C13 happens: simulate({R:128,G:128,B:128}, {type: Achromatopsia,
\* anomalize: false}) has rounded the luminance and returned #808080
C13_Witness ==
    /\ pc = "done"
    /\ input = ObjectInput(<<128, 128, 128>>)
    /\ options = Opts(Achromatopsia, "false")
    /\ trace = <<"parse", "achromatic", "clamp", "format">>
    /\ result = <<"#", "8", "0", "8", "0", "8", "0">>

(***************************************************************************)
(* The conversions on their own: convertRgbToXyz, then convertXyzToRgb     *)
(***************************************************************************)
\* The colours converted: every channel value from 0 to 255 in every channel,
\* in a gray, beside two channels at 0 and beside two channels at 255
RoundTripColors ==
    UNION {{<<v, v, v>>, <<v, 0, 0>>, <<0, v, 0>>, <<0, 0, v>>,
            <<v, 255, 255>>, <<255, v, 255>>, <<255, 255, v>>} : v \in 0..255}

\* The gammaCorrection values of the generic profile: left out (2.2), 1 / 2,
\* 1, 2.4 and 10
RoundTripGammas == {<<>>, <<1, 2>>, <<1, 1>>, <<12, 5>>, <<10, 1>>}

\* The options converted with: sRGB, and generic with each gammaCorrection
RoundTripOptions ==
    {[type |-> <<>>, anomalize |-> "unset", colorProfile |-> p, gammaCorrection |-> g] :
        p \in {"unset", "sRGB"}, g \in {<<>>}}
    \cup {[type |-> <<>>, anomalize |-> "unset", colorProfile |-> "generic",
           gammaCorrection |-> g] : g \in RoundTripGammas}

\* A colour and the options are handed to convertRgbToXyz
CallConvert ==
    /\ pc = "idle"
    /\ \E c \in RoundTripColors, o \in RoundTripOptions :
          /\ rgb' = [R |-> Num(c[1]), G |-> Num(c[2]), B |-> Num(c[3])]
          /\ options' = o
    /\ pc' = "toXyz"
    /\ entry' = "convertRgbToXyz"
    /\ UNCHANGED <<input, configKey, steps, simulated, result, error, trace, tables, heap>>

\* convertRgbToXyz(rgb, fullOptions)
ToXyz ==
    /\ pc = "toXyz"
    /\ pc' = "toRgb"
    /\ steps' = [xyz |-> convertRgbToXyz(rgb, FullOptions(options))]
    /\ UNCHANGED <<entry, input, options, rgb, configKey, simulated, result, error, trace,
                   tables, heap>>

\* convertXyzToRgb(xyz, fullOptions)
ToRgb ==
    /\ pc = "toRgb"
    /\ pc' = "converted"
    /\ simulated' = convertXyzToRgb(steps.xyz, FullOptions(options))
    /\ UNCHANGED <<entry, input, options, rgb, configKey, steps, result, error, trace,
                   tables, heap>>

\* The converted colour is taken; the next conversion starts afresh
Converted ==
    /\ pc = "converted"
    /\ pc' = "idle"
    /\ entry' = ""
    /\ options' = NoOptions
    /\ rgb' = NoColor
    /\ steps' = NoSteps
    /\ simulated' = NoColor
    /\ UNCHANGED <<input, configKey, result, error, trace, tables, heap>>

RoundTripNext ==
    \/ CallConvert
    \/ ToXyz
    \/ ToRgb
    \/ Converted

RoundTripSpec == Init /\ [][RoundTripNext]_vars

\* The integer channels of a colour record
IntChannels(color) == <<ToInt(color.R), ToInt(color.G), ToInt(color.B)>>

\* C14 as claimed: gamma round trip for both profiles, the generic one with
\* whatever gammaCorrection it is given.  Whenever convertXyzToRgb has converted
\* back what convertRgbToXyz made of an in-range integer colour with the same
\* options, the colour is the one that went in.
C14_RoundTripAnyGamma == pc = "converted" => IntChannels(simulated) = IntChannels(rgb)

\* The gammaCorrection in force is at most 2.4
ModerateGamma ==
    LET g == FullOptions(options).gammaCorrection IN 5 * g[1] <= 12 * g[2]

\* C14: gamma round trip.  Whenever convertXyzToRgb has converted back what
\* convertRgbToXyz made of an in-range integer colour with the same options,
\* the profile being sRGB or being generic with a gammaCorrection of 1 / 2, 1,
\* 2.2 (the default) or 2.4, the colour is the one that went in.
C14_GammaRoundTrip ==
    (pc = "converted" /\ (FullOptions(options).colorProfile = "sRGB" \/ ModerateGamma)) =>
        IntChannels(simulated) = IntChannels(rgb)

\* C14 happens: (1,255,255) has gone to XYZ and back with the generic profile
\* and its default gamma and has come back as (1,255,255)
C14_Witness ==
    /\ pc = "converted"
    /\ options.colorProfile = "generic"
    /\ options.gammaCorrection = <<>>
    /\ IntChannels(rgb) = <<1, 255, 255>>
    /\ steps # NoSteps
    /\ IntChannels(simulated) = <<1, 255, 255>>

(***************************************************************************)
(* The dichromatic path                                                    *)
(***************************************************************************)
\* simulateDichromacy has computed simulatedXyz; it has computed the deltas
HasProjected == pc \in {"gamut", "encode", "blend", "clamp", "format", "done"} /\ steps # NoSteps

HasMapped == pc \in {"encode", "blend", "clamp", "format", "done"} /\ steps # NoSteps

\* The projection and gamut mapping of the decoded colour in steps with the
\* configuration of key
MappedWith(key) ==
    DichromacyGamut(DichromacyProject(steps, tables.BLINDNESS_CONFIGURATIONS[key]))

\* C15: luminance preservation.  In every call on the dichromatic path, the
\* XYZ colour reconstructed at the projected chromaticity has the Y of the
\* source colour, and the delta of the gamut-mapping shift has a Y component
\* of 0; and the same is so for the decoded colour of every call with each of
\* the four configurations of BLINDNESS_CONFIGURATIONS, the ones the call does
\* not select included.
C15_LuminancePreserved ==
    /\ HasProjected => steps.simulatedXyz.Y = steps.xyz.Y
    /\ HasMapped => steps.deltaXyz.Y = Zero
    /\ pc = "project" =>
           \A key \in DOMAIN tables.BLINDNESS_CONFIGURATIONS :
               \A d \in {MappedWith(key)} :
                   d.simulatedXyz.Y = steps.xyz.Y /\ d.deltaXyz.Y = Zero

\* C15 happens: deuteranopia of white has moved the colour along its
\* confusion line to another X at the same Y, and the gamut mapping has
\* shifted it
C15_Witness ==
    /\ pc = "encode"
    /\ configKey = "custom"
    /\ rgb = [R |-> Num(255), G |-> Num(255), B |-> Num(255)]
    /\ IsFin(steps.xyz.Y) /\ Gt(steps.xyz.Y, Zero)
    /\ steps.simulatedXyz.X # steps.xyz.X
    /\ steps.simulatedXyz.Y = steps.xyz.Y
    /\ Gt(steps.maxAdjust, Zero)
    /\ steps.deltaXyz.Y = Zero

(***************************************************************************)
(* The options                                                             *)
(***************************************************************************)
\* The options that spell out anomalize: false, colorProfile: 'sRGB' and
\* gammaCorrection: 2.2 for a kind
Explicit(type) ==
    [type |-> type, anomalize |-> "false", colorProfile |-> "sRGB",
     gammaCorrection |-> <<11, 5>>]

\* C16: option defaults.  Whenever a call of simulate that gives the kind only
\* has ended, for any input (valid or not) and any kind, it has thrown or
\* returned what simulate does for the same input and kind with anomalize:
\* false, colorProfile: 'sRGB' and gammaCorrection: 2.2 given; and whenever a
\* call that gives these three has ended, it has thrown or returned what
\* simulate does with the kind only.
C16_OptionDefaults ==
    /\ (Ended /\ options \in KindOnly) => Outcome = simulate(input, Explicit(options.type))
    /\ (Ended /\ options = Explicit(options.type)) =>
           Outcome = simulate(input, Opts(options.type, "unset"))

\* C16 happens: simulate('#FF0000', {type: Tritanopia}) has decoded and encoded
\* with the sRGB curve taken from DEFAULT_OPTIONS and has returned the string
\* that the call with the three options spelled out returns, which is not what
\* the generic profile gives
C16_Witness ==
    /\ pc = "done"
    /\ entry = "simulate"
    /\ input = StringInput(HexString(<<255, 0, 0>>, TRUE, TRUE))
    /\ options = Opts(Tritanopia, "unset")
    /\ result = simulate(input, Explicit(Tritanopia)).value
    /\ result # simulate(input, [Explicit(Tritanopia) EXCEPT !.colorProfile = "generic"]).value

\* Each full dichromacy with the primary of its own family
OwnPrimary ==
    {<<Protanopia, <<255, 0, 0>>>>, <<Deuteranopia, <<0, 255, 0>>>>,
     <<Tritanopia, <<0, 0, 255>>>>}

\* A full dichromacy has returned for its own primary, with anomalize false or
\* left out and the sRGB profile
PrimaryDone ==
    /\ pc = "done"
    /\ input \in ColorInputs
    /\ <<options.type, ColorOf(input)>> \in OwnPrimary
    /\ ~Anomalize(options)
    /\ FullOptions(options).colorProfile = "sRGB"

\* C17: each full dichromacy materially alters its own primary.  Whenever
\* Protanopia has returned for (255,0,0), Deuteranopia for (0,255,0) or
\* Tritanopia for (0,0,255), with anomalize false and the sRGB profile, some
\* channel of the result differs from the input by more than 50, and so does
\* the Euclidean distance of the two colours.
C17_PrimaryAltered ==
    PrimaryDone =>
        /\ \E k \in 1..3 : Abs(ChannelsOf(result)[k] - ColorOf(input)[k]) > 50
        /\ Dist2(ChannelsOf(result), ColorOf(input)) > 50 * 50

\* C17 happens: simulate('#FF0000', {type: Protanopia, anomalize: false}) has
\* returned #907F17, which is 111 from the input in R and 127 in G
C17_Witness ==
    /\ pc = "done"
    /\ input = StringInput(HexString(<<255, 0, 0>>, TRUE, TRUE))
    /\ options = Opts(Protanopia, "false")
    /\ result = <<"#", "9", "0", "7", "F", "1", "7">>

(***************************************************************************)
(* The order of the stages                                                 *)
(***************************************************************************)
\* The stages of a call on the dichromatic path and on the achromatic path
DichromaticStages(blend) ==
    <<"parse", "decode", "project", "gamut", "encode">>
        \o (IF blend THEN <<"blend">> ELSE <<>>) \o <<"clamp", "format">>

AchromaticStages == <<"parse", "achromatic", "clamp", "format">>

\* The stages of the call in progress
StagesOfCall ==
    IF IsAchromatic(options.type) THEN AchromaticStages
    ELSE DichromaticStages(Anomalize(options))

IsPrefix(s, t) == Len(s) <= Len(t) /\ SubSeq(t, 1, Len(s)) = s

\* A stage as the pipeline names it: the steps of either simulation path are
\* the one stage 'path'
StageClass(stage) ==
    IF stage \in {"achromatic", "project", "gamut", "encode"} THEN "path" ELSE stage

\* The stage classes of a trace in order, consecutive steps of one class once
RECURSIVE Collapsed(_)
Collapsed(t) ==
    IF Len(t) <= 1 THEN [i \in 1..Len(t) |-> StageClass(t[i])]
    ELSE IF StageClass(t[1]) = StageClass(t[2]) THEN Collapsed(Tail(t))
    ELSE <<StageClass(t[1])>> \o Collapsed(Tail(t))

\* C18 as claimed: every call that returns has run parse, gamma decode, the
\* simulation path, the blend if any, clamp and format, in this order, each
\* once, the gamma decode before the achromatic path too.
C18_DecodeBeforeEveryPath ==
    pc = "done" =>
        Collapsed(trace) \in {<<"parse", "decode", "path", "clamp", "format">>,
                              <<"parse", "decode", "path", "blend", "clamp", "format">>}

\* C18: the order of the stages.  At every point of every call the stages run
\* so far are the first stages of the one fixed sequence of the call, in its
\* order and none twice; a call that returns has run the whole sequence.  On
\* the dichromatic path the sequence is parse, gamma decode, projection, gamut
\* mapping, gamma encode, the blend exactly when anomalize is true, clamp,
\* format; on the achromatic path it is parse, simulateAchromatopsia (with its
\* own blend and rounding), clamp, format, without any gamma decode.
C18_StageOrder ==
    pc # "idle" =>
        /\ IsPrefix(trace, StagesOfCall)
        /\ pc = "done" => trace = StagesOfCall

\* C18 happens: achromatomaly with anomalize true, the generic profile and a
\* gammaCorrection of 1 / 2 has returned for red without decoding any gamma,
\* so with the result the default options give
C18_Witness ==
    /\ pc = "done"
    /\ input = StringInput(HexString(<<255, 0, 0>>, TRUE, TRUE))
    /\ options.type = Achromatomaly
    /\ options.anomalize = "true"
    /\ options.colorProfile = "generic"
    /\ options.gammaCorrection = <<1, 2>>
    /\ trace = <<"parse", "achromatic", "clamp", "format">>
    /\ result = <<"#", "7", "F", "2", "2", "2", "2">>

(***************************************************************************)
(* The anomalous blend                                                     *)
(***************************************************************************)
\* A call on a colour with anomalize true has returned
AnomalizedDone == pc = "done" /\ input \in ColorInputs /\ Anomalize(options)

\* What simulate returns for the same input, kind and options but anomalize false
Unblended == ChannelsOf(simulate(input, [options EXCEPT !.anomalize = "false"]).value)

\* round((1.75 * s + o) / 2.75) of integers s and o: (7 s + 4 o) / 11 rounded
\* to the nearest integer, which is never half way
BlendOf(s, o) == (14 * s + 8 * o + 11) \div 22

\* C19: the anomalous blend formula.  Whenever a call with anomalize true has
\* returned for an in-range colour, with any kind and any profile, on the
\* dichromatic or the achromatic path, each channel of the result is
\* round((1.75 * s + o) / 2.75), o being that channel of the input colour and
\* s that channel of what simulate returns for the same input, kind and
\* options with anomalize false.
C19_BlendFormula ==
    AnomalizedDone =>
        \A unblended \in {Unblended} :
            \A k \in 1..3 :
                ChannelsOf(result)[k] = BlendOf(unblended[k], ColorOf(input)[k])

\* C19 happens: tritanomaly('#0000FF') has returned #003695, the blend of
\* blue with the (0,85,89) that tritanopia returns
C19_Witness ==
    /\ pc = "done"
    /\ entry = "tritanomaly"
    /\ input = StringInput(HexString(<<0, 0, 255>>, TRUE, TRUE))
    /\ Unblended = <<0, 85, 89>>
    /\ trace = DichromaticStages(TRUE)
    /\ result = <<"#", "0", "0", "3", "6", "9", "5">>

(***************************************************************************)
(* C20: the parallel-line case                                             *)
(***************************************************************************)
\* simulateDichromacy has returned in a call whose confusion line has the slope
\* m of the configuration's colour axis
ParallelDone ==
    /\ pc \in {"blend", "clamp", "format", "done"}
    /\ configKey \in DOMAIN tables.BLINDNESS_CONFIGURATIONS
    /\ steps # NoSteps
    /\ Eq(steps.confusionSlope, tables.BLINDNESS_CONFIGURATIONS[configKey].m)

\* C20: the parallel-line case.  Whenever simulateDichromacy has returned in a
\* call whose confusion line, through the source chromaticity and the
\* confusion point, has exactly the slope m of the colour axis, the colour it
\* returned is the source colour, unchanged.
C20_ParallelReturnsSource == ParallelDone => steps.result = rgb

(***************************************************************************)
(* C21: the reconstruction at the projected chromaticity                   *)
(***************************************************************************)
\* The values that lines 217-230 of a call have computed
ProjectedValues ==
    {steps.confusionSlope, steps.confusionYIntercept, steps.intersectionX,
     steps.intersectionY, steps.simulatedXyz.X, steps.simulatedXyz.Y, steps.simulatedXyz.Z}

\* C21: no degenerate reconstruction.  In every call on the dichromatic path
\* with an in-range colour, black included, and any of the configurations, the
\* projected chromaticity has intersectionY different from 0 and every value
\* computed by the projection and the reconstruction of XYZ is finite.
C21_ReconstructionFinite ==
    HasProjected /\ input \in ColorInputs =>
        /\ ~Eq(steps.intersectionY, Zero)
        /\ \A v \in ProjectedValues : IsFin(v)

(***************************************************************************)
(* C22: the gamut mapping, on a grid of colours                            *)
(***************************************************************************)
\* The channel values of the grid
GridValues == {0, 51, 102, 153, 204, 255}

\* The colours simulateDichromacy is called with: a grid of the RGB cube
GridColors == {<<r, g, b>> : r \in GridValues, g \in GridValues, b \in GridValues}

\* The options simulateDichromacy is called with: sRGB, and generic with gamma 1
GridOptions ==
    {[type |-> <<>>, anomalize |-> "unset", colorProfile |-> p[1], gammaCorrection |-> p[2]] :
        p \in {<<"sRGB", <<>>>>, <<"generic", <<1, 1>>>>}}

\* simulateDichromacy(rgb, configuration, options) is called with a colour of
\* the grid and one of the four configurations, and computes lines 213-215
CallDichromacy ==
    /\ pc = "idle"
    /\ \E c \in GridColors, key \in DOMAIN tables.BLINDNESS_CONFIGURATIONS, o \in GridOptions :
          /\ rgb' = [R |-> Num(c[1]), G |-> Num(c[2]), B |-> Num(c[3])]
          /\ configKey' = key
          /\ options' = o
          /\ steps' = DichromacyDecode(rgb', FullOptions(o))
    /\ pc' = "project"
    /\ entry' = "simulateDichromacy"
    /\ trace' = <<"decode">>
    /\ UNCHANGED <<input, simulated, result, error, tables, heap>>

\* Lines 272-274: simulateDichromacy returns
DichromacyReturn ==
    /\ pc = "encode"
    /\ entry = "simulateDichromacy"
    /\ pc' = "returned"
    /\ steps' = DichromacyEncode(steps, FullOptions(options))
    /\ simulated' = steps'.result
    /\ heap' = [heap EXCEPT !.simulated = ReturnedObject(heap.rgb)]
    /\ trace' = Append(trace, "encode")
    /\ UNCHANGED <<entry, input, options, rgb, configKey, result, error, tables>>

\* The returned colour is taken; the next call starts afresh
Returned ==
    /\ pc = "returned"
    /\ pc' = "idle"
    /\ entry' = ""
    /\ options' = NoOptions
    /\ rgb' = NoColor
    /\ configKey' = ""
    /\ steps' = NoSteps
    /\ simulated' = NoColor
    /\ trace' = <<>>
    /\ heap' = NoHeap
    /\ UNCHANGED <<input, result, error, tables>>

GamutNext ==
    \/ CallDichromacy
    \/ Project
    \/ GamutMap
    \/ DichromacyReturn
    \/ Returned

\* The calls of simulateDichromacy on the grid
GamutSpec == Init /\ [][GamutNext]_vars

\* The three channels of a linear RGB record
LinearChannels(l) == {l.r, l.g, l.b}

\* The gamut mapping of a call has run on a projected colour with finite linear
\* channels
MappedFinite == HasMapped /\ \A c \in LinearChannels(steps.linear) : IsFin(c)

\* The rounding error allowed to a channel: 0.00001
GamutTolerance == Dec(1, 5)

\* C22 as stated: the gamut mapping brings the result into range.  Whenever
\* the gamut mapping has run on a projected colour with finite linear channels
\* and a source luminance Y in (0,1], each of the three shifted linear channels
\* lies in [0,1].
C22_MappedInRange ==
    (MappedFinite /\ Gt(steps.chromaticity.Y, Zero) /\ Le(steps.chromaticity.Y, One)) =>
        \A c \in LinearChannels(steps.mapped) : Ge(c, Zero) /\ Le(c, One)

\* C22, amended: the gamut mapping brings the result into range up to
\* rounding.  Whenever the gamut mapping has run on the projection of a colour
\* with channels in 0..255 whose linear channels are finite, each of the three
\* shifted linear channels lies in [-0.00001, 1.00001].
C22_MappedNearRange ==
    MappedFinite =>
        \A c \in LinearChannels(steps.mapped) :
            Ge(c, Neg(GamutTolerance)) /\ Le(c, Add(One, GamutTolerance))

\* C22 happens: the projection of (153,51,255) with the deutan configuration
\* has a linear channel below 0, and the gamut mapping has shifted it by a
\* maxAdjust above 0
C22_Witness ==
    /\ pc = "encode"
    /\ entry = "simulateDichromacy"
    /\ rgb = [R |-> Num(153), G |-> Num(51), B |-> Num(255)]
    /\ configKey = "deutan"
    /\ FullOptions(options).colorProfile = "sRGB"
    /\ MappedFinite
    /\ \E c \in LinearChannels(steps.linear) : Lt(c, Zero)
    /\ Gt(steps.maxAdjust, Zero)

(***************************************************************************)
(* C23: gammaCorrection under the sRGB profile                             *)
(***************************************************************************)
\* Values of gammaCorrection besides the one of the call: 0.5 and 10
OtherGammas == {<<1, 2>>, <<10, 1>>}

\* A call with the sRGB profile, named or by default, has ended
SrgbEnded == Ended /\ FullOptions(options).colorProfile = "sRGB"

\* C23: gammaCorrection is used only under the generic profile.  Whenever a
\* call whose colorProfile is 'sRGB', named in the options or taken from the
\* defaults, has ended, with any input, kind, anomalize and gammaCorrection,
\* what it gave is what simulate gives for the same input and options with
\* gammaCorrection 0.5 and with gammaCorrection 10.
C23_GammaUnusedUnderSrgb ==
    SrgbEnded =>
        \A g \in OtherGammas : simulate(input, [options EXCEPT !.gammaCorrection = g]) = Outcome

\* C23 happens: protanopia of red with colorProfile 'sRGB' and gammaCorrection 1
\* has returned #907F17, as it does with gammaCorrection 10, while the generic
\* profile with the same gammaCorrection returns another colour
C23_Witness ==
    /\ pc = "done"
    /\ input = StringInput(HexString(<<255, 0, 0>>, TRUE, TRUE))
    /\ options = [type |-> Protanopia, anomalize |-> "unset", colorProfile |-> "sRGB",
                  gammaCorrection |-> <<1, 1>>]
    /\ result = <<"#", "9", "0", "7", "F", "1", "7">>
    /\ simulate(input, [options EXCEPT !.gammaCorrection = <<10, 1>>]).value = result
    /\ simulate(input, [options EXCEPT !.colorProfile = "generic"]).value # result

(***************************************************************************)
(* C24: convertXyzToXyy, on a grid of XYZ colours                          *)
(***************************************************************************)
\* The largest numerator of a component of the grid, in quarters
MaxQuarters == 4

\* The components of the XYZ colours convertXyzToXyy is called with: the
\* quarters from -1 to 1.  A colour outside 0..255 has components below 0, and
\* its sum can be 0 while its Y is not.
XyzComponents == {Div(Num(n), Num(4)) : n \in -MaxQuarters..MaxQuarters}

\* convertXyzToXyy(xyz) is called
CallXyy ==
    /\ pc = "idle"
    /\ \E X \in XyzComponents, Y \in XyzComponents, Z \in XyzComponents :
          steps' = [xyz |-> [X |-> X, Y |-> Y, Z |-> Z]]
    /\ pc' = "toXyy"
    /\ entry' = "convertXyzToXyy"
    /\ UNCHANGED <<input, options, rgb, configKey, simulated, result, error, trace, tables, heap>>

\* Lines 123-135
ToXyy ==
    /\ pc = "toXyy"
    /\ pc' = "chromaticity"
    /\ steps' = ToChromaticity(steps.xyz)
    /\ UNCHANGED <<entry, input, options, rgb, configKey, simulated, result, error, trace,
                   tables, heap>>

\* The chromaticity is taken; the next conversion starts afresh
XyyReturned ==
    /\ pc = "chromaticity"
    /\ pc' = "idle"
    /\ entry' = ""
    /\ steps' = NoSteps
    /\ UNCHANGED <<input, options, rgb, configKey, simulated, result, error, trace, tables, heap>>

XyyNext ==
    \/ CallXyy
    \/ ToXyy
    \/ XyyReturned

\* The calls of convertXyzToXyy on the grid
XyySpec == Init /\ [][XyyNext]_vars

\* xyz.X + xyz.Y + xyz.Z of the conversion in steps
XyzSum == Add(Add(steps.xyz.X, steps.xyz.Y), steps.xyz.Z)

\* The conversion of a colour whose sum is not 0 has divided X and Y by the
\* sum and kept Y
DividedBySum ==
    /\ steps.chromaticity.x = Div(steps.xyz.X, XyzSum)
    /\ steps.chromaticity.y = Div(steps.xyz.Y, XyzSum)
    /\ steps.chromaticity.Y = steps.xyz.Y

\* C24 as stated: the chromaticity of pure black.  Whenever convertXyzToXyy
\* has converted an XYZ colour, the result is x = 0, y = 0, Y = 0 if X + Y + Z
\* is 0, and x = X / (X + Y + Z), y = Y / (X + Y + Z), Y unchanged otherwise.
C24_ZeroSumGivesZeroY ==
    pc = "chromaticity" =>
        IF Eq(XyzSum, Zero)
        THEN steps.chromaticity = [x |-> Zero, y |-> Zero, Y |-> Zero]
        ELSE DividedBySum

\* C24, amended: whenever convertXyzToXyy has converted an XYZ colour, the
\* result is x = 0, y = 0 and Y unchanged if X + Y + Z is 0, so Y = 0 for black
\* and no division has given a NaN or an infinity, and x = X / (X + Y + Z),
\* y = Y / (X + Y + Z), Y unchanged otherwise.
C24_ZeroSumKeepsY ==
    pc = "chromaticity" =>
        IF Eq(XyzSum, Zero)
        THEN /\ steps.chromaticity = [x |-> Zero, y |-> Zero, Y |-> steps.xyz.Y]
             /\ steps.xyz = [X |-> Zero, Y |-> Zero, Z |-> Zero] => steps.chromaticity.Y = Zero
        ELSE DividedBySum

\* C24 happens: black has been converted, to x = 0, y = 0, Y = 0
C24_Witness ==
    /\ pc = "chromaticity"
    /\ entry = "convertXyzToXyy"
    /\ steps.xyz = [X |-> Zero, Y |-> Zero, Z |-> Zero]
    /\ steps.chromaticity = [x |-> Zero, y |-> Zero, Y |-> Zero]

(***************************************************************************)
(* C25: the two kinds of a family                                          *)
(***************************************************************************)
\* The other kind of the family of a kind
OtherKindOfFamily(type) ==
    CASE type = Protanopia    -> Protanomaly
      [] type = Protanomaly   -> Protanopia
      [] type = Deuteranopia  -> Deuteranomaly
      [] type = Deuteranomaly -> Deuteranopia
      [] type = Tritanopia    -> Tritanomaly
      [] type = Tritanomaly   -> Tritanopia
      [] type = Achromatopsia -> Achromatomaly
      [] type = Achromatomaly -> Achromatopsia

\* C25: the two kinds of a family differ only by the blend.  Whenever a call
\* has ended, of simulate or of a wrapper, with any input and options, what it
\* gave is what simulate gives for the same input and the same options with
\* the other kind of the same family: the kind counts through its family only
\* and anomalize alone controls the blend.
C25_KindsOfFamilyAgree ==
    Ended => simulate(input, [options EXCEPT !.type = OtherKindOfFamily(options.type)]) = Outcome

\* C25 happens: simulate with the kind Protanomaly and no anomalize has
\* returned for red what protanopia returns, #907F17, which is not red, and
\* not what the kind gives with anomalize true
C25_Witness ==
    /\ pc = "done"
    /\ entry = "simulate"
    /\ input = StringInput(HexString(<<255, 0, 0>>, TRUE, TRUE))
    /\ options = Opts(Protanomaly, "unset")
    /\ result = <<"#", "9", "0", "7", "F", "1", "7">>
    /\ simulate(input, Opts(Protanopia, "unset")).value = result
    /\ simulate(input, Opts(Protanomaly, "true")).value # result

(***************************************************************************)
(* C26: the arguments of simulate                                          *)
(***************************************************************************)
\* C26: simulate never modifies its arguments.  At every point of every call,
\* of simulate or of a wrapper, and after it has returned or thrown, the
\* caller's input (a record, an array or anything else) and the caller's
\* options object hold the values they held when the call began, although the
\* local rgb is the caller's record itself and simulate writes the clamped
\* channels into the object simulated.
C26_ArgumentsUntouched ==
    pc \in {"parse", "select", "project", "gamut", "encode", "blend", "clamp", "format",
            "done", "thrown"} =>
        /\ heap.input = input
        /\ heap.options = options

\* C26 happens: achromatopsia has returned #363636 for the record
\* {R:255,G:0,B:0}; rgb was that record itself, the clamp wrote 54 into the
\* three channels of simulated, another object, and the record is as it was
C26_Witness ==
    /\ pc = "done"
    /\ input = ObjectInput(<<255, 0, 0>>)
    /\ options = Opts(Achromatopsia, "unset")
    /\ heap.rgb = "input"
    /\ heap.simulated = "literal"
    /\ <<ToInt(simulated.R), ToInt(simulated.G), ToInt(simulated.B)>> = <<54, 54, 54>>
    /\ heap.input = input
    /\ result = <<"#", "3", "6", "3", "6", "3", "6">>

(***************************************************************************)
(* C27: the gamut mapping of a colour in gamut                             *)
(***************************************************************************)
\* The gamut mapping of a call has run on a projected colour whose three
\* linear channels lie in [0,1]
MappedInGamut ==
    HasMapped /\ \A c \in LinearChannels(steps.linear) : Ge(c, Zero) /\ Le(c, One)

\* C27: the gamut mapping leaves a colour in gamut alone.  Whenever the gamut
\* mapping has run on a projected colour whose three linear channels lie in
\* [0,1], the neutral point or not, each clamped adjustment factor is 0,
\* maxAdjust is 0 and the linear RGB passed on to the encoding is the projected
\* linear RGB.
C27_InGamutUnchanged ==
    MappedInGamut =>
        /\ \A t \in LinearChannels(steps.clampedAdjust) : t = Zero
        /\ steps.maxAdjust = Zero
        /\ steps.mapped = steps.linear

\* C27 happens: the projection of (102,102,51) with the protan configuration
\* lies in gamut and away from the neutral point, and the gamut mapping has
\* passed it on as it is
C27_Witness ==
    /\ pc = "encode"
    /\ entry = "simulateDichromacy"
    /\ rgb = [R |-> Num(102), G |-> Num(102), B |-> Num(51)]
    /\ configKey = "protan"
    /\ MappedInGamut
    /\ \E c \in LinearChannels(steps.delta) : ~Eq(c, Zero)
    /\ steps.mapped = steps.linear

====
